---------------------------- MODULE Spec2Model ----------------------------
(***************************************************************************)
(* Model of tag_importer: the Twinsoft memory-map address allocation and   *)
(* validation engine (twinsoft/twinsoftprocessor.py) together with the     *)
(* command surface that drives it (tag_importer.py).                       *)
(*                                                                         *)
(* Data frames are sequences of records, text cells are sequences of       *)
(* one-character strings, an empty cell (NaN / None) is NULL.              *)
(***************************************************************************)
EXTENDS Integers, Sequences, FiniteSets, TLC

VARIABLES
    cmd,                        \* the command invoked: generate | create | clone | tabulate
    args,                       \* its options, as passed to TwinsoftProcessor
    memory_map_df,              \* ExcelProcessor.memory_map_df  (sheet MEMORY_MAP)
    tags_df,                    \* ExcelProcessor.tags_df        (sheet TAGS)
    template_df,                \* ExcelProcessor.template_df    (sheet TEMPLATE)
    twinsoft_tag_export_file,   \* the <Tag> elements of the exported XML file
    twinsoft_tags_df,           \* TwinsoftProcessor.__twinsoft_tags_df
    err_df,                     \* conflicts found by load_and_validate_memory_map
    pending_tags_df,            \* the frame handed to __generate_addressing
    gen_df,                     \* gen_tags_merged / clone_df: the AllocationResults
    pc,                         \* position of the run
    error,                      \* the exception that ended the run, or NoError
    write_xml_file,             \* rows written to the output file
    clipboard                   \* the table tabulate prints and copies

vars == << cmd, args, memory_map_df, tags_df, template_df,
           twinsoft_tag_export_file, twinsoft_tags_df, err_df,
           pending_tags_df, gen_df, pc, error, write_xml_file, clipboard >>

-----------------------------------------------------------------------------
(* Bounds of the model *)

MaxPending == 3     \* longest pending TagIntent sequence
MaxRows == 2        \* most rows of a set whose names, descriptions and groups vary
MaxRegions == 3     \* most rows of a MEMORY_MAP sheet drawn from RegionRows

(* Program constants *)

TW_MAX_TAG_LEN == 15
TW_MAX_GROUP_NAME_LEN == 15
TW_TAG_MAX_DESC_LEN == 50

-----------------------------------------------------------------------------
(* Text and cells *)

NULL == << "NaN" >>     \* an empty text cell
NAN == "NaN"            \* an empty cell of a column of keywords

NoError == [kind |-> "none", rows |-> << >>]

RECURSIVE Rep(_, _)
Rep(c, n) == IF n = 0 THEN << >> ELSE << c >> \o Rep(c, n - 1)

\* positions (1-based) at which sub occurs in s
Occurrences(s, sub) ==
    { i \in 1..(Len(s) - Len(sub) + 1) : SubSeq(s, i, i + Len(sub) - 1) = sub }

\* Series.str.contains(pat) for a literal pat; a NaN cell gives NaN, which
\* selects nothing
StrContains(s, pat) == s # NULL /\ Occurrences(s, pat) # {}

Min(S) == CHOOSE m \in S : \A n \in S : m <= n
Max(S) == CHOOSE m \in S : \A n \in S : m >= n

Range(s) == { s[i] : i \in 1..Len(s) }

RECURSIVE SeqsUpTo(_, _)
SeqsUpTo(S, n) ==
    IF n = 0 THEN { << >> }
    ELSE LET shorter == SeqsUpTo(S, n - 1)
         IN  shorter \cup { Append(s, x) : s \in { t \in shorter : Len(t) = n - 1 }, x \in S }

Injective(s) == \A i, j \in 1..Len(s) : i # j => s[i] # s[j]

RECURSIVE Concat(_)
Concat(ss) == IF ss = << >> THEN << >> ELSE Head(ss) \o Concat(Tail(ss))

-----------------------------------------------------------------------------
(* Ordering of text, as sort_values orders object columns *)

\* the characters the model uses, in code-point order
CharOrder == << " ", "*", "0", "1", "2", "3", "4", "5", "6", "7", "8", "9",
                "A", "B", "C", "D", "E", "G", "N", "S", "X", "\\", "_", "d" >>

Ord(c) == CHOOSE i \in 1..Len(CharOrder) : CharOrder[i] = c

RECURSIVE LexLess(_, _)
LexLess(a, b) ==
    IF b = << >> THEN FALSE
    ELSE IF a = << >> THEN TRUE
    ELSE IF Head(a) # Head(b) THEN Ord(Head(a)) < Ord(Head(b))
    ELSE LexLess(Tail(a), Tail(b))

\* str(n) for n >= 0: ModbusAddress is text until load_twinsoft_xml casts it
RECURSIVE DigitsOf(_)
DigitsOf(n) ==
    IF n < 10 THEN << CharOrder[3 + n] >>
    ELSE Append(DigitsOf(n \div 10), CharOrder[3 + (n % 10)])

-----------------------------------------------------------------------------
(* Memory map: types, strides, end addresses *)

WideTypes == { "FLOAT", "INT32", "UINT32" }

\* the TS_FORMAT / TS_SIGNED cells that go with a MEM_TYPE
FormatOf(t) ==
    CASE t = "FLOAT" -> "FLOAT"
      [] t = "BOOL" -> "DIGITAL"
      [] t \in { "UINT16", "INT16" } -> "16BITS"
      [] t \in { "UINT32", "INT32" } -> "32BITS"
      [] t = "UINT8" -> "BYTE"
      [] OTHER -> "TEXT"

SignedOf(t) == t \in { "INT16", "INT32" }

Region(id, type, start, length, textlen) ==
    [ MEM_ID |-> id, MEM_TYPE |-> type, START_ADDRESS |-> start,
      LENGTH |-> length, TS_FORMAT |-> FormatOf(type),
      TS_SIGNED |-> SignedOf(type), TEXT_LEN |-> textlen ]

\* every type ends at start + length - 1
EndAddressNarrow(type, start, length) == start + length - 1

\* END_ADDRESS / MAX_ADDRESS of a region row
EndAddress(type, start, length) ==
    IF type \in WideTypes THEN start + length * 2 - 2 ELSE start + length - 1

IsBool(r) == r.MEM_TYPE = "BOOL"

\* the err_df rows that row i of the memory map contributes: one per later
\* row of the same IS_BOOL group whose [start, end] interval meets row i's
ConflictsOf(df, i) ==
    LET row == df[i]
        rowEnd == EndAddress(row.MEM_TYPE, row.START_ADDRESS, row.LENGTH)
        Later == SubSeq(df, i + 1, Len(df))
        Hit(nrow) ==
            /\ IsBool(nrow) = IsBool(row)
            /\ row.START_ADDRESS <= EndAddress(nrow.MEM_TYPE, nrow.START_ADDRESS, nrow.LENGTH)
            /\ nrow.START_ADDRESS <= rowEnd
        hits == SelectSeq(Later, Hit)
    IN  [ k \in 1..Len(hits) |->
            [ ORIGIN_GROUP |-> row.MEM_ID, ORIGIN_FORMAT |-> row.MEM_TYPE,
              CONFLICT_GROUP |-> hits[k].MEM_ID, CONFLICT_FORMAT |-> hits[k].MEM_TYPE ] ]

\* load_and_validate_memory_map: groupby IS_BOOL visits the non-BOOL rows,
\* then the BOOL rows
MemoryMapConflicts(df) ==
    LET OfClass(b) ==
            Concat([ i \in 1..Len(df) |->
                        IF IsBool(df[i]) = b /\ i # Len(df)
                        THEN ConflictsOf(df, i) ELSE << >> ])
    IN  OfClass(FALSE) \o OfClass(TRUE)

-----------------------------------------------------------------------------
(* TAGS sheet *)

TagsRow(class, name, pattern, desc, template, group, memid, type) ==
    [ CLASS |-> class, TAG_NAME |-> name, TAG_PATTERN |-> pattern,
      DESCRIPTION |-> desc, TEMPLATE |-> template, TS_GROUP |-> group,
      MEM_ID |-> memid, TAG_TYPE |-> type ]

MapRow(group, memid) == TagsRow("MAP", NULL, NULL, NULL, NULL, group, memid, NAN)

IsMap(r) == r.CLASS = "MAP"

\* the cell of a row that its class is checked on
TagNameCell(r) == r.TAG_NAME
TagPatternCell(r) == r.TAG_PATTERN
CellOf(r, class) == IF class = "BASE" THEN TagNameCell(r) ELSE TagPatternCell(r)

\* DataFrame.duplicated(subset): a non-null cell seen in an earlier row
HasDuplicateCell(df, class) ==
    LET OfClass(r) == r.CLASS = class /\ CellOf(r, class) # NULL
        sub == SelectSeq(df, OfClass)
    IN  \E i, j \in 1..Len(sub) : i < j /\ CellOf(sub[i], class) = CellOf(sub[j], class)

\* load_validate_tags
DuplicateTagName(df) ==
    \/ HasDuplicateCell(df, "BASE")
    \/ HasDuplicateCell(df, "GENERATE")

-----------------------------------------------------------------------------
(* The exported XML file and its data frame *)

XmlTag(tag, group, format, signed, address, comment) ==
    [ Tag |-> tag, Group |-> group, Format |-> format, Signed |-> signed,
      ModbusAddress |-> address, Comment |-> comment ]

\* sort_values(by=['Group', 'ModbusAddress']): both columns are text here,
\* empty Group cells sort last
SortLess(a, b) ==
    IF a.Group # b.Group
    THEN IF a.Group = NULL THEN FALSE
         ELSE IF b.Group = NULL THEN TRUE
         ELSE LexLess(a.Group, b.Group)
    ELSE LexLess(DigitsOf(a.ModbusAddress), DigitsOf(b.ModbusAddress))

RECURSIVE SortValues(_)
SortValues(s) ==
    IF Len(s) <= 1 THEN s
    ELSE LET rest == SortValues(SubSeq(s, 1, Len(s) - 1))
             x == s[Len(s)]
             pos == Cardinality({ i \in 1..Len(rest) : ~SortLess(x, rest[i]) })
         IN  SubSeq(rest, 1, pos) \o << x >> \o SubSeq(rest, pos + 1, Len(rest))

\* x["Signed"].fillna("False")
FillSigned(r) == [ r EXCEPT !.Signed = IF @ = NAN THEN "False" ELSE @ ]

\* __twinsoft_export_to_df, for a file with at least one <Tag>
TwinsoftExportToDf(file) ==
    LET sorted == SortValues(file)
    IN  [ i \in 1..Len(sorted) |-> FillSigned(sorted[i]) ]

\* the data frame row of an exported tag joined to a MAP row (or to none)
ExportRow(t, group, memid) ==
    [ Tag |-> t.Tag, Group |-> t.Group, Format |-> t.Format, Signed |-> t.Signed,
      ModbusAddress |-> t.ModbusAddress, Comment |-> t.Comment,
      TS_GROUP |-> group, MEM_ID |-> memid ]

\* pd.merge(df, map_df, left_on=['Group'], right_on=['TS_GROUP'], how='left')
MergeMap(df, tags) ==
    LET map_df == SelectSeq(tags, IsMap)
        Rows(t) ==
            LET OfGroup(m) == m.TS_GROUP = t.Group
                ms == SelectSeq(map_df, OfGroup)
            IN  IF ms = << >> THEN << ExportRow(t, NULL, NULL) >>
                ELSE [ k \in 1..Len(ms) |-> ExportRow(t, ms[k].TS_GROUP, ms[k].MEM_ID) ]
    IN  Concat([ i \in 1..Len(df) |-> Rows(df[i]) ])

\* rows of the merged export without a MAP entry
MissingMap(df) == LET NoGroup(r) == r.TS_GROUP = NULL IN SelectSeq(df, NoGroup)

\* rows of the merged export whose MEM_ID is in no MEMORY_MAP row
MissingMemoryMap(df, map) ==
    LET NoRegion(r) == \A i \in 1..Len(map) : map[i].MEM_ID # r.MEM_ID
    IN  SelectSeq(df, NoRegion)

\* load_data: the first error it raises (or NoError), the conflicts found
\* and the export data frame it leaves behind
LoadDataResult(tags, map, file, ignore_errors) ==
    LET conflicts == MemoryMapConflicts(map)
        df == MergeMap(TwinsoftExportToDf(file), tags)
    IN  IF DuplicateTagName(tags)
        THEN [ error |-> [kind |-> "TE_DUPLICATE_TAG_NAME", rows |-> << >>],
               err_df |-> << >>, df |-> << >> ]
        ELSE IF ~ignore_errors /\ conflicts # << >>
        THEN [ error |-> [kind |-> "TE_MEMORY_MAP_CONFLICT", rows |-> conflicts],
               err_df |-> conflicts, df |-> << >> ]
        ELSE IF file = << >>
        THEN [ error |-> [kind |-> "TE_XML_ROOT_KEY_NOT_FOUND", rows |-> << >>],
               err_df |-> conflicts, df |-> << >> ]
        ELSE IF MissingMap(df) # << >>
        THEN [ error |-> [kind |-> "TE_MAP_ENTRY_MISSING", rows |-> MissingMap(df)],
               err_df |-> conflicts, df |-> df ]
        ELSE IF MissingMemoryMap(df, map) # << >>
        THEN [ error |-> [kind |-> "TE_MAP_ENTRY_MISSING", rows |-> MissingMemoryMap(df, map)],
               err_df |-> conflicts, df |-> df ]
        ELSE [ error |-> NoError, err_df |-> conflicts, df |-> df ]

-----------------------------------------------------------------------------
(* generate_tags and create: the pending TagIntents *)

TemplateRow(template, suffix, type, desc) ==
    [ TEMPLATE |-> template, SUFFIX |-> suffix, TYPE |-> type, DESCRIPTION |-> desc ]

\* replace_pattern(r'\*', source, new_content): the first '*' is cut out and
\* new_content put in its place
replace_pattern(pattern, source, new_content) ==
    IF Occurrences(source, << pattern >>) # {}
    THEN LET pos == Min(Occurrences(source, << pattern >>))
         IN  SubSeq(source, 1, pos - 1) \o new_content \o SubSeq(source, pos + 1, Len(source))
    ELSE source

\* the MEMORY_MAP cells of a row the left join matched with nothing: MEM_TYPE
\* is empty, and nothing reads the other cells of such a row
NoRegionCells ==
    [ MEM_ID |-> NULL, MEM_TYPE |-> NAN, START_ADDRESS |-> 0, LENGTH |-> 0,
      TS_FORMAT |-> NAN, TS_SIGNED |-> FALSE, TEXT_LEN |-> 0 ]

\* a pending row: a catalog row joined to its MEMORY_MAP row
Intent(tag, desc, group, memid, type, region) ==
    [ TAG |-> tag, DESCRIPTION |-> desc, TS_GROUP |-> group, MEM_ID |-> memid,
      TYPE |-> type, MEM_TYPE |-> region.MEM_TYPE,
      TS_FORMAT |-> region.TS_FORMAT, TS_SIGNED |-> region.TS_SIGNED,
      START_ADDRESS |-> region.START_ADDRESS, LENGTH |-> region.LENGTH,
      TEXT_LEN |-> region.TEXT_LEN ]

\* pd.merge(df, memory_map, left_on=['MEM_ID', type], right_on=['MEM_ID',
\* 'MEM_TYPE'], how='left') for one row
JoinMemoryMap(map, tag, desc, group, memid, type) ==
    LET Hit(r) == r.MEM_ID = memid /\ r.MEM_TYPE = type
        rs == SelectSeq(map, Hit)
    IN  IF rs = << >> THEN << Intent(tag, desc, group, memid, type, NoRegionCells) >>
        ELSE [ k \in 1..Len(rs) |-> Intent(tag, desc, group, memid, type, rs[k]) ]

NoRegion(r) == r.MEM_TYPE = NAN

\* the names of df that are names of exported tags, once per matching pair
ExistingTags(export, df) ==
    Concat([ i \in 1..Len(export) |->
               LET Same(r) == r.TAG = export[i].Tag
                   hits == SelectSeq(df, Same)
               IN  [ k \in 1..Len(hits) |-> export[i].Tag ] ])

\* generate_tags, lines 578-626: the pending frame and the error raised
GenerateTagsResult(tags, template, map, export, pattern) ==
    LET Selected(r) == r.CLASS = "GENERATE" /\ StrContains(r.TAG_PATTERN, pattern)
        pattern_df == SelectSeq(tags, Selected)
        \* left join with the template rows; t is empty for a template not found
        Expand(g) ==
            LET OfTemplate(t) == t.TEMPLATE = g.TEMPLATE
                ts == SelectSeq(template, OfTemplate)
            IN  IF ts = << >> THEN << [ g |-> g, t |-> << >> ] >>
                ELSE [ k \in 1..Len(ts) |-> [ g |-> g, t |-> << ts[k] >> ] ]
        joined == Concat([ i \in 1..Len(pattern_df) |-> Expand(pattern_df[i]) ])
        NoTemplate(x) == x.t = << >>
        Pending(x) ==
            JoinMemoryMap(map,
                          replace_pattern("*", x.g.TAG_PATTERN, x.t[1].SUFFIX),
                          replace_pattern("*", x.g.DESCRIPTION, x.t[1].DESCRIPTION),
                          x.g.TS_GROUP, x.g.MEM_ID, x.t[1].TYPE)
        pending == Concat([ i \in 1..Len(joined) |-> Pending(joined[i]) ])
    IN  IF SelectSeq(joined, NoTemplate) # << >>
        THEN [ error |-> [kind |-> "TE_TEMPLATE_NOT_FOUND",
                          rows |-> SelectSeq(joined, NoTemplate)],
               pending |-> << >> ]
        ELSE IF pattern_df = << >>
        THEN [ error |-> [kind |-> "TE_PATTERN_NOT_FOUND", rows |-> << >>],
               pending |-> << >> ]
        ELSE IF SelectSeq(pending, NoRegion) # << >>
        THEN [ error |-> [kind |-> "TE_MEM_ID_NOT_FOUND",
                          rows |-> SelectSeq(pending, NoRegion)],
               pending |-> pending ]
        ELSE IF ExistingTags(export, pending) # << >>
        THEN [ error |-> [kind |-> "TE_TAGS_EXIST", rows |-> ExistingTags(export, pending)],
               pending |-> pending ]
        ELSE [ error |-> NoError, pending |-> pending ]

\* create, lines 683-698
CreateResult(tags, map, export, tag_filter, group_filter) ==
    LET Selected(r) ==
            /\ r.CLASS = "BASE"
            /\ StrContains(r.TAG_NAME, tag_filter)
            /\ StrContains(r.TS_GROUP, group_filter)
        create_df == SelectSeq(tags, Selected)
        Pending(r) == JoinMemoryMap(map, r.TAG_NAME, r.DESCRIPTION, r.TS_GROUP,
                                    r.MEM_ID, r.TAG_TYPE)
        pending == Concat([ i \in 1..Len(create_df) |-> Pending(create_df[i]) ])
    IN  IF SelectSeq(pending, NoRegion) # << >>
        THEN [ error |-> [kind |-> "TE_TAGS_EXIST", rows |-> SelectSeq(pending, NoRegion)],
               pending |-> pending ]
        ELSE IF ExistingTags(export, pending) # << >>
        THEN [ error |-> [kind |-> "TE_TAGS_EXIST", rows |-> ExistingTags(export, pending)],
               pending |-> pending ]
        ELSE [ error |-> NoError, pending |-> pending ]

-----------------------------------------------------------------------------
(* get_twinsoft_export_summary: the usage rows *)

FormatOrder == << "16BITS", "32BITS", "BYTE", "DIGITAL", "FLOAT", "TEXT" >>

FormatOrd(f) == CHOOSE i \in 1..Len(FormatOrder) : FormatOrder[i] = f

\* order of the groupby keys <<Group, Format, Signed>>
KeyLess(a, b) ==
    IF a[1] # b[1] THEN LexLess(a[1], b[1])
    ELSE IF a[2] # b[2] THEN FormatOrd(a[2]) < FormatOrd(b[2])
    ELSE a[3] = "False" /\ b[3] = "True"

RECURSIVE SortKeys(_)
SortKeys(S) ==
    IF S = {} THEN << >>
    ELSE LET m == CHOOSE k \in S : \A o \in S \ { k } : KeyLess(k, o)
         IN  << m >> \o SortKeys(S \ { m })

\* groupby(['Group', 'Format', 'Signed']).agg(min, max), Signed made a bool,
\* then the left join with the MAP rows: one usage row per group key and
\* MAP row of that group
ExportSummary(df, tags) ==
    LET rows == { df[i] : i \in { j \in 1..Len(df) : df[j].Group # NULL } }
        keys == SortKeys({ << r.Group, r.Format, r.Signed >> : r \in rows })
        map_df == SelectSeq(tags, IsMap)
        Addresses(k) ==
            { r.ModbusAddress : r \in { x \in rows : << x.Group, x.Format, x.Signed >> = k } }
        Usage(k, group, memid) ==
            [ Group |-> k[1], Format |-> k[2], Signed |-> (k[3] = "True"),
              MB_MIN |-> Min(Addresses(k)), MB_MAX |-> Max(Addresses(k)),
              TS_GROUP |-> group, MEM_ID |-> memid ]
        Rows(k) ==
            LET OfGroup(m) == m.TS_GROUP = k[1]
                ms == SelectSeq(map_df, OfGroup)
            IN  IF ms = << >> THEN << Usage(k, NULL, NULL) >>
                ELSE [ n \in 1..Len(ms) |-> Usage(k, ms[n].TS_GROUP, ms[n].MEM_ID) ]
    IN  Concat([ i \in 1..Len(keys) |-> Rows(keys[i]) ])

\* get_twinsoft_export_summary, lines 334-337 (root_tags not set)
GroupEmpty(df) == \E i \in 1..Len(df) : df[i].Group = NULL

\* export_summary.dropna(axis=0)
DropNa(summary) == LET Full(u) == u.MEM_ID # NULL IN SelectSeq(summary, Full)

\* __as_memory_map: MEM_TYPE from the format and the signedness
TypeOfFormat(format, signed) ==
    CASE format = "FLOAT" -> "FLOAT"
      [] format = "DIGITAL" -> "BOOL"
      [] format = "16BITS" -> IF signed THEN "INT16" ELSE "UINT16"
      [] format = "32BITS" -> IF signed THEN "INT32" ELSE "UINT32"
      [] format = "BYTE" /\ ~signed -> "UINT8"
      [] OTHER -> "TODO"

\* __as_memory_map: LENGTH, the halved difference cut to an integer
LengthOfUsage(type, min, max) ==
    IF type \in { "FLOAT", "UINT32", "INT32" } THEN (max - min) \div 2 + 1
    ELSE IF type = "TODO" THEN 1
    ELSE max - min + 1

\* __as_memory_map: the usage rows in the layout of the MEMORY_MAP sheet
AsMemoryMap(summary) ==
    [ i \in 1..Len(summary) |->
        LET u == summary[i]
            type == TypeOfFormat(u.Format, u.Signed)
        IN  [ MEM_ID |-> u.MEM_ID, MEM_TYPE |-> type, START_ADDRESS |-> u.MB_MIN,
              LENGTH |-> LengthOfUsage(type, u.MB_MIN, u.MB_MAX),
              TS_FORMAT |-> u.Format, TS_SIGNED |-> u.Signed,
              GROUP_NUM |-> 0, COMMENT |-> "Generated on: now" ] ]

-----------------------------------------------------------------------------
(* __generate_addressing: the Allocator *)

\* every type advances by one address
StrideOne(type, textlen) == 1

\* CALC_INC, and the factor the cumulative count is scaled by
Stride(type, textlen) ==
    IF type \in WideTypes THEN 2
    ELSE IF type = "TEXT" THEN textlen
    ELSE 1

\* a row of gen_tags_merged: a pending row joined to a usage row u, or to
\* none (u empty)
Merged(p, u) ==
    [ TAG |-> p.TAG, DESCRIPTION |-> p.DESCRIPTION, TS_GROUP |-> p.TS_GROUP,
      MEM_ID |-> p.MEM_ID, MEM_TYPE |-> p.MEM_TYPE, TS_FORMAT |-> p.TS_FORMAT,
      TS_SIGNED |-> p.TS_SIGNED, START_ADDRESS |-> p.START_ADDRESS,
      LENGTH |-> p.LENGTH, TEXT_LEN |-> p.TEXT_LEN,
      Group |-> IF u = << >> THEN NULL ELSE u[1].Group,
      MB_MAX |-> IF u = << >> THEN 0 ELSE u[1].MB_MAX,
      HAS_DATA |-> u # << >>,
      CALC_ADDRESS |-> 0 ]

\* pd.merge(export_summary, pending, left_on=['MEM_ID', 'Format', 'Signed'],
\* right_on=['MEM_ID', 'TS_FORMAT', 'TS_SIGNED'], how='right')
MergeUsage(summary, pending) ==
    LET Rows(p) ==
            LET Hit(u) == /\ u.MEM_ID = p.MEM_ID
                          /\ u.Format = p.TS_FORMAT
                          /\ u.Signed = p.TS_SIGNED
                us == SelectSeq(summary, Hit)
            IN  IF us = << >> THEN << Merged(p, << >>) >>
                ELSE [ k \in 1..Len(us) |-> Merged(p, << us[k] >>) ]
    IN  Concat([ i \in 1..Len(pending) |-> Rows(pending[i]) ])

SameRegionType(a, b) == a.MEM_ID = b.MEM_ID /\ a.MEM_TYPE = b.MEM_TYPE

\* the rows with data whose MB_MAX is the smallest of their group
MinMerged(merged) ==
    LET HasData(r) == r.HAS_DATA
        has == SelectSeq(merged, HasData)
        GroupMin(r) == Min({ has[j].MB_MAX : j \in { n \in 1..Len(has) : SameRegionType(has[n], r) } })
        IsMin(r) == r.MB_MAX = GroupMin(r)
    IN  SelectSeq(has, IsMin)

\* max_merged[idx]: the rows with data whose MB_MAX is the largest of their
\* (MEM_ID, MEM_TYPE) group
MaxMerged(merged) ==
    LET HasData(r) == r.HAS_DATA
        has == SelectSeq(merged, HasData)
        GroupMax(r) == Max({ has[j].MB_MAX : j \in { n \in 1..Len(has) : SameRegionType(has[n], r) } })
        IsMax(r) == r.MB_MAX = GroupMax(r)
    IN  SelectSeq(has, IsMax)

\* groupby(['HAS_DATA', 'MEM_ID', 'MEM_TYPE']).cumcount() of row i
CumCount(df, i) ==
    Cardinality({ j \in 1..(i - 1) :
                    df[j].HAS_DATA = df[i].HAS_DATA /\ SameRegionType(df[j], df[i]) })

\* lines 534-552: the address of a row from its cumulative count
CalcAddress(r, count) ==
    count * Stride(r.MEM_TYPE, r.TEXT_LEN)
      + (IF r.HAS_DATA THEN r.MB_MAX + Stride(r.MEM_TYPE, r.TEXT_LEN)
         ELSE r.START_ADDRESS)

\* lines 504-558
GenerateAddressing(summary, pending) ==
    LET merged == MergeUsage(summary, pending)
        NoData(r) == ~r.HAS_DATA
        df == MaxMerged(merged) \o SelectSeq(merged, NoData)
    IN  [ i \in 1..Len(df) |->
            [ df[i] EXCEPT !.CALC_ADDRESS = CalcAddress(df[i], CumCount(df, i)) ] ]

-----------------------------------------------------------------------------
(* __validate_gen_df: the Validator *)

\* Series.str.contains('.+__.+'): "__" with a character before and after it
DoubleUnderscore(tag) ==
    \E i \in Occurrences(tag, << "_", "_" >>) : i >= 2 /\ i + 2 <= Len(tag)

\* a name of the maximum length is too long as well
TagAtLeastMax(tag) == Len(tag) >= TW_MAX_TAG_LEN

TagTooLong(tag) == Len(tag) > TW_MAX_TAG_LEN

DescTooLong(desc) == desc # NULL /\ Len(desc) > TW_TAG_MAX_DESC_LEN

\* group_entry.split("\\"): the segments between backslashes
RECURSIVE Split(_)
Split(g) ==
    IF Occurrences(g, << "\\" >>) = {} THEN << g >>
    ELSE LET pos == Min(Occurrences(g, << "\\" >>))
         IN  << SubSeq(g, 1, pos - 1) >> \o Split(SubSeq(g, pos + 1, Len(g)))

\* __group_too_long_count
group_too_long_count(group_entry) ==
    LET TooLong(e) == Len(e) > TW_MAX_GROUP_NAME_LEN
    IN  Len(SelectSeq(Split(group_entry), TooLong))

\* the TAG cells of rows
Tags(rows) == [ i \in 1..Len(rows) |-> rows[i].TAG ]

\* __validate_gen_df_addresses, lines 413-416: the rows of df that carry a
\* MEM_TYPE, each joined to the MEMORY_MAP rows of its (MEM_ID, TS_FORMAT,
\* TS_SIGNED)
AddressRows(df, map) ==
    LET Typed(r) == r.MEM_TYPE # NAN
        typed == SelectSeq(df, Typed)
        Rows(r) ==
            LET Hit(m) == /\ m.MEM_ID = r.MEM_ID
                          /\ m.TS_FORMAT = r.TS_FORMAT
                          /\ m.TS_SIGNED = r.TS_SIGNED
                ms == SelectSeq(map, Hit)
            IN  [ k \in 1..Len(ms) |->
                    [ TAG |-> r.TAG, MEM_ID |-> r.MEM_ID, MEM_TYPE |-> r.MEM_TYPE,
                      MIN_ADDRESS |-> ms[k].START_ADDRESS,
                      CALC_ADDRESS |-> r.CALC_ADDRESS,
                      MAX_ADDRESS |-> EndAddress(r.MEM_TYPE, ms[k].START_ADDRESS, ms[k].LENGTH) ] ]
    IN  [ typed |-> typed, joined |-> Concat([ i \in 1..Len(typed) |-> Rows(typed[i]) ]) ]

\* only the end of the region is checked
AboveRegion(x) == x.CALC_ADDRESS > x.MAX_ADDRESS

OutOfRegion(x) == x.CALC_ADDRESS > x.MAX_ADDRESS \/ x.CALC_ADDRESS < x.MIN_ADDRESS

\* __validate_gen_df_addresses: the error it raises, or NoError
ValidateAddresses(df, map, blind_validation) ==
    LET merged == AddressRows(df, map)
        errs == SelectSeq(merged.joined, OutOfRegion)
    IN  IF ~blind_validation /\ merged.typed = << >>
        THEN [kind |-> "TE_MEM_ID_NOT_FOUND", rows |-> Tags(df)]
        ELSE IF errs # << >>
        THEN [kind |-> "TE_CALC_ADDRESS_NOT_IN_MEMORY_MAP", rows |-> errs]
        ELSE NoError

\* subset_df.loc[subset_df.duplicated(subset=['CALC_ADDRESS'])]: the rows whose
\* address an earlier row of the subset has
Duplicated(subset) ==
    LET idx == { i \in 1..Len(subset) :
                   \E j \in 1..(i - 1) : subset[j].CALC_ADDRESS = subset[i].CALC_ADDRESS }
    IN  [ k \in 1..Cardinality(idx) |->
            subset[CHOOSE i \in idx : Cardinality({ j \in idx : j < i }) = k - 1] ]

BoolRows(df) == LET B(r) == r.MEM_TYPE = "BOOL" IN SelectSeq(df, B)
AnalogRows(df) == LET A(r) == r.MEM_TYPE # "BOOL" IN SelectSeq(df, A)

\* __validate_gen_df: the error of the first check that fails, or NoError.
\* has_ts_group_x: the frame has the column TS_GROUP_x, which the duplicate
\* BOOL message prints (the frame of __generate_addressing has it, clone_df
\* does not)
ValidateGenDf(df, map, blind_validation, has_ts_group_x) ==
    LET Underscores(r) == DoubleUnderscore(r.TAG)
        LongName(r) == TagTooLong(r.TAG)
        LongDesc(r) == DescTooLong(r.DESCRIPTION)
        LongGroup(r) == group_too_long_count(r.TS_GROUP) # 0
        addresses == ValidateAddresses(df, map, blind_validation)
    IN  IF SelectSeq(df, Underscores) # << >>
        THEN [kind |-> "TE_DOUBLE_UNDERSCORES", rows |-> Tags(SelectSeq(df, Underscores))]
        ELSE IF SelectSeq(df, LongName) # << >>
        THEN [kind |-> "TE_TAG_NAME_TOO_LONG", rows |-> Tags(SelectSeq(df, LongName))]
        ELSE IF SelectSeq(df, LongDesc) # << >>
        THEN [kind |-> "TE_TAG_DESC_TOO_LONG", rows |-> Tags(SelectSeq(df, LongDesc))]
        ELSE IF df = << >>
        THEN [kind |-> "ValueError", rows |-> << >>]
        ELSE IF SelectSeq(df, LongGroup) # << >>
        THEN [kind |-> "TE_MAP_GROUP_TOO_LONG", rows |-> Tags(SelectSeq(df, LongGroup))]
        ELSE IF addresses.kind # "none"
        THEN addresses
        ELSE IF Duplicated(BoolRows(df)) # << >>
        THEN IF has_ts_group_x
             THEN [kind |-> "TE_DUPLICATE_BOOL_ADDR", rows |-> Tags(Duplicated(BoolRows(df)))]
             ELSE [kind |-> "KeyError", rows |-> << >>]
        ELSE IF Duplicated(AnalogRows(df)) # << >>
        THEN [kind |-> "TE_DUPLICATE_ANALOG_ADDR", rows |-> Tags(Duplicated(AnalogRows(df)))]
        ELSE NoError

-----------------------------------------------------------------------------
(* clone: the Cloner *)

\* leftmost position of s at which an alternative of the pattern matches
\* (0: no match); a pattern is a set of literal alternatives of one length
FirstMatch(s, pat) ==
    LET hits == UNION { Occurrences(s, alt) : alt \in pat }
    IN  IF hits = {} THEN 0 ELSE Min(hits)

PatLen(pat) == Len(CHOOSE alt \in pat : TRUE)

\* every match of the cell is replaced
RECURSIVE ReplaceEvery(_, _, _)
ReplaceEvery(s, pat, repl) ==
    IF s = NULL \/ FirstMatch(s, pat) = 0 THEN s
    ELSE LET pos == FirstMatch(s, pat)
         IN  SubSeq(s, 1, pos - 1) \o repl
               \o ReplaceEvery(SubSeq(s, pos + PatLen(pat), Len(s)), pat, repl)

\* Series.str.replace(pat, repl, n=1, regex=True) on one cell
ReplaceFirst(s, pat, repl) ==
    IF s = NULL \/ FirstMatch(s, pat) = 0 THEN s
    ELSE LET pos == FirstMatch(s, pat)
         IN  SubSeq(s, 1, pos - 1) \o repl \o SubSeq(s, pos + PatLen(pat), Len(s))

\* Series.str.replace(pat, repl, regex=True) on one cell: every match
RECURSIVE ReplaceAll(_, _, _)
ReplaceAll(s, pat, repl) ==
    IF s = NULL \/ FirstMatch(s, pat) = 0 THEN s
    ELSE LET pos == FirstMatch(s, pat)
         IN  SubSeq(s, 1, pos - 1) \o repl
               \o ReplaceAll(SubSeq(s, pos + PatLen(pat), Len(s)), pat, repl)

\* the group find/replace pair is looked at before the destination
CloneGroupFindFirst(group, a) ==
    IF a.group_pattern # {} THEN ReplaceAll(group, a.group_pattern, a.group_replace)
    ELSE IF a.dest # NULL THEN a.dest
    ELSE ReplaceAll(group, a.replace_pattern, a.loop_no)

\* lines 648-655: the group of a cloned tag
CloneGroup(group, a) ==
    IF a.dest # NULL THEN a.dest
    ELSE IF a.group_pattern = {} THEN ReplaceAll(group, a.replace_pattern, a.loop_no)
    ELSE ReplaceAll(group, a.group_pattern, a.group_replace)

\* a row of clone_df, joined to the MEMORY_MAP row m of its rewritten MEM_ID
\* and its format and signedness
Cloned(t, a, m) ==
    [ TAG |-> ReplaceFirst(t.Tag, a.replace_pattern, a.loop_no),
      DESCRIPTION |-> ReplaceFirst(t.Comment, a.replace_pattern, a.loop_no),
      TS_GROUP |-> CloneGroup(t.TS_GROUP, a),
      MEM_ID |-> ReplaceFirst(t.MEM_ID, a.replace_pattern, a.loop_no),
      MEM_TYPE |-> m.MEM_TYPE, TS_FORMAT |-> t.Format,
      TS_SIGNED |-> (t.Signed = "True"),
      START_ADDRESS |-> m.START_ADDRESS, LENGTH |-> m.LENGTH,
      TEXT_LEN |-> m.TEXT_LEN,
      Group |-> t.Group, MB_MAX |-> 0, HAS_DATA |-> FALSE,
      CALC_ADDRESS |-> t.ModbusAddress + a.address_offset ]

\* clone_df of the rows the group filter selects, whatever their names
CloneDfAnyName(export, map, a) ==
    LET Selected(t) == StrContains(t.Group, a.group_filter)
        clone_df == SelectSeq(export, Selected)
        Rows(t) ==
            LET Hit(m) == /\ m.MEM_ID = ReplaceFirst(t.MEM_ID, a.replace_pattern, a.loop_no)
                          /\ m.TS_FORMAT = t.Format
                          /\ m.TS_SIGNED = (t.Signed = "True")
                ms == SelectSeq(map, Hit)
            IN  IF ms = << >> THEN << Cloned(t, a, NoRegionCells) >>
                ELSE [ k \in 1..Len(ms) |-> Cloned(t, a, ms[k]) ]
    IN  Concat([ i \in 1..Len(clone_df) |-> Rows(clone_df[i]) ])

\* clone_df with the source addresses left as they are
CloneDfUnshifted(export, map, a) ==
    LET Selected(t) == StrContains(t.Tag, a.tag_filter) /\ StrContains(t.Group, a.group_filter)
        clone_df == SelectSeq(export, Selected)
        b == [ a EXCEPT !.address_offset = 0 ]
        Rows(t) ==
            LET Hit(m) == /\ m.MEM_ID = ReplaceFirst(t.MEM_ID, a.replace_pattern, a.loop_no)
                          /\ m.TS_FORMAT = t.Format
                          /\ m.TS_SIGNED = (t.Signed = "True")
                ms == SelectSeq(map, Hit)
            IN  IF ms = << >> THEN << Cloned(t, b, NoRegionCells) >>
                ELSE [ k \in 1..Len(ms) |-> Cloned(t, b, ms[k]) ]
    IN  Concat([ i \in 1..Len(clone_df) |-> Rows(clone_df[i]) ])

\* lines 632-669: clone_df
CloneDf(export, map, a) ==
    LET Selected(t) == StrContains(t.Tag, a.tag_filter) /\ StrContains(t.Group, a.group_filter)
        clone_df == SelectSeq(export, Selected)
        Rows(t) ==
            LET Hit(m) == /\ m.MEM_ID = ReplaceFirst(t.MEM_ID, a.replace_pattern, a.loop_no)
                          /\ m.TS_FORMAT = t.Format
                          /\ m.TS_SIGNED = (t.Signed = "True")
                ms == SelectSeq(map, Hit)
            IN  IF ms = << >> THEN << Cloned(t, a, NoRegionCells) >>
                ELSE [ k \in 1..Len(ms) |-> Cloned(t, a, ms[k]) ]
    IN  Concat([ i \in 1..Len(clone_df) |-> Rows(clone_df[i]) ])

-----------------------------------------------------------------------------
(* The run of one command *)

Fail(e) == pc' = "failed" /\ error' = e

\* the options of a command; an option that was not given is NULL ({} for a
\* pattern)
Args(pattern, tag_filter, group_filter, dest, address_offset, loop_no, replace, blind_validation, group_pattern, group_replace, ignore_map_errors) ==
    [ pattern |-> pattern, tag_filter |-> tag_filter, group_filter |-> group_filter,
      dest |-> dest, address_offset |-> address_offset, loop_no |-> loop_no,
      replace_pattern |-> replace, blind_validation |-> blind_validation,
      group_pattern |-> group_pattern, group_replace |-> group_replace,
      ignore_map_errors |-> ignore_map_errors ]

\* tag_importer.clone, lines 179-180
GroupReplaceRequired(c, a) ==
    c = "clone" /\ a.group_pattern # {} /\ a.group_replace = NULL

\* the memory map errors are ignored in every run
AlwaysIgnoreErrors(c, a) == TRUE

\* load_data(ignore_errors): create calls it without the flag
IgnoreErrors(c, a) == c # "create" /\ a.ignore_map_errors

\* the command is entered and load_data runs
LoadData ==
    /\ pc = "start" /\ cmd # "tabulate"
    /\ LET r == LoadDataResult(tags_df, memory_map_df, twinsoft_tag_export_file,
                               IgnoreErrors(cmd, args))
       IN  IF GroupReplaceRequired(cmd, args)
           THEN /\ Fail([kind |-> "ExcelProcessorError", rows |-> << >>])
                /\ UNCHANGED << err_df, twinsoft_tags_df >>
           ELSE /\ err_df' = r.err_df
                /\ twinsoft_tags_df' = r.df
                /\ IF r.error.kind # "none" THEN Fail(r.error)
                   ELSE pc' = "loaded" /\ UNCHANGED error
    /\ UNCHANGED << clipboard, cmd, args, memory_map_df, tags_df, template_df,
                    twinsoft_tag_export_file, pending_tags_df, gen_df, write_xml_file >>

\* generate_tags up to the call of __generate_addressing
GenerateTags ==
    /\ pc = "loaded" /\ cmd = "generate"
    /\ LET r == GenerateTagsResult(tags_df, template_df, memory_map_df,
                                   twinsoft_tags_df, args.pattern)
       IN  /\ pending_tags_df' = r.pending
           /\ IF r.error.kind # "none" THEN Fail(r.error)
              ELSE pc' = "pending" /\ UNCHANGED error
    /\ UNCHANGED << clipboard, cmd, args, memory_map_df, tags_df, template_df,
                    twinsoft_tag_export_file, twinsoft_tags_df, err_df, gen_df,
                    write_xml_file >>

\* create up to the call of __generate_addressing
Create ==
    /\ pc = "loaded" /\ cmd = "create"
    /\ LET r == CreateResult(tags_df, memory_map_df, twinsoft_tags_df,
                             args.tag_filter, args.group_filter)
       IN  /\ pending_tags_df' = r.pending
           /\ IF r.error.kind # "none" THEN Fail(r.error)
              ELSE pc' = "pending" /\ UNCHANGED error
    /\ UNCHANGED << clipboard, cmd, args, memory_map_df, tags_df, template_df,
                    twinsoft_tag_export_file, twinsoft_tags_df, err_df, gen_df,
                    write_xml_file >>

\* __generate_addressing up to the call of __validate_gen_df
Allocate ==
    /\ pc = "pending"
    /\ IF GroupEmpty(twinsoft_tags_df)
       THEN /\ Fail([kind |-> "TE_GROUP_EMPTY", rows |-> << >>])
            /\ UNCHANGED gen_df
       ELSE /\ gen_df' = GenerateAddressing(
                             DropNa(ExportSummary(twinsoft_tags_df, tags_df)),
                             pending_tags_df)
            /\ pc' = "addressed"
            /\ UNCHANGED error
    /\ UNCHANGED << clipboard, cmd, args, memory_map_df, tags_df, template_df,
                    twinsoft_tag_export_file, twinsoft_tags_df, err_df,
                    pending_tags_df, write_xml_file >>

\* clone that shifts and renames the selected rows of the export frame itself
CloneInPlace ==
    /\ pc = "loaded" /\ cmd = "clone"
    /\ LET clone_df == CloneDf(twinsoft_tags_df, memory_map_df, args)
           Edited(t) ==
               IF StrContains(t.Tag, args.tag_filter) /\ StrContains(t.Group, args.group_filter)
               THEN [ t EXCEPT !.ModbusAddress = @ + args.address_offset,
                               !.Tag = ReplaceFirst(@, args.replace_pattern, args.loop_no) ]
               ELSE t
       IN  /\ gen_df' = clone_df
           /\ twinsoft_tags_df' = [ i \in 1..Len(twinsoft_tags_df) |-> Edited(twinsoft_tags_df[i]) ]
           /\ IF clone_df = << >>
              THEN Fail([kind |-> "TE_PATTERN_NOT_FOUND", rows |-> << >>])
              ELSE /\ pc' = IF args.ignore_map_errors THEN "approved" ELSE "addressed"
                   /\ UNCHANGED error
    /\ UNCHANGED << clipboard, cmd, args, memory_map_df, tags_df, template_df,
                    twinsoft_tag_export_file, err_df, pending_tags_df, write_xml_file >>

\* clone up to the call of __validate_gen_df, which ignore_map_errors skips
Clone ==
    /\ pc = "loaded" /\ cmd = "clone"
    /\ LET clone_df == CloneDf(twinsoft_tags_df, memory_map_df, args)
       IN  /\ gen_df' = clone_df
           /\ IF clone_df = << >>
              THEN Fail([kind |-> "TE_PATTERN_NOT_FOUND", rows |-> << >>])
              ELSE /\ pc' = IF args.ignore_map_errors THEN "approved" ELSE "addressed"
                   /\ UNCHANGED error
    /\ UNCHANGED << clipboard, cmd, args, memory_map_df, tags_df, template_df,
                    twinsoft_tag_export_file, twinsoft_tags_df, err_df,
                    pending_tags_df, write_xml_file >>

\* __validate_gen_df on the frame of __generate_addressing or of clone
Validate ==
    /\ pc = "addressed"
    /\ LET e == ValidateGenDf(gen_df, memory_map_df,
                              cmd = "clone" /\ args.blind_validation, cmd # "clone")
       IN  IF e.kind # "none" THEN Fail(e)
           ELSE pc' = "approved" /\ UNCHANGED error
    /\ UNCHANGED << clipboard, cmd, args, memory_map_df, tags_df, template_df,
                    twinsoft_tag_export_file, twinsoft_tags_df, err_df,
                    pending_tags_df, gen_df, write_xml_file >>

\* __to_twinsoft_xml
ToTwinsoftXml ==
    /\ pc = "approved"
    /\ write_xml_file' = gen_df
    /\ pc' = "done"
    /\ UNCHANGED << clipboard, cmd, args, memory_map_df, tags_df, template_df,
                    twinsoft_tag_export_file, twinsoft_tags_df, err_df,
                    pending_tags_df, gen_df, error >>

\* tabulate xmlsummary: load_twinsoft_xml(validate=False), then
\* get_twinsoft_export_summary(mapped, root_tags)
Tabulate ==
    /\ pc = "start" /\ cmd = "tabulate"
    /\ IF twinsoft_tag_export_file = << >>
       THEN /\ Fail([kind |-> "TE_XML_ROOT_KEY_NOT_FOUND", rows |-> << >>])
            /\ UNCHANGED << twinsoft_tags_df, clipboard >>
       ELSE LET df == MergeMap(TwinsoftExportToDf(twinsoft_tag_export_file), tags_df)
                x == ExportSummary(df, tags_df)
            IN  /\ twinsoft_tags_df' = df
                /\ IF ~args.root_tags /\ GroupEmpty(df)
                   THEN /\ Fail([kind |-> "TE_GROUP_EMPTY", rows |-> << >>])
                        /\ UNCHANGED clipboard
                   ELSE /\ clipboard' = IF args.mapped THEN AsMemoryMap(x) ELSE x
                        /\ pc' = "done"
                        /\ UNCHANGED error
    /\ UNCHANGED << cmd, args, memory_map_df, tags_df, template_df,
                    twinsoft_tag_export_file, err_df, pending_tags_df, gen_df,
                    write_xml_file >>

Next ==
    \/ Tabulate
    \/ LoadData
    \/ GenerateTags
    \/ Create
    \/ Allocate
    \/ Clone
    \/ Validate
    \/ ToTwinsoftXml

-----------------------------------------------------------------------------
(* Inputs *)

Digits == { << CharOrder[i] >> : i \in 3..12 }      \* the pattern \d

G1 == << "G", "1" >>
G2 == << "G", "2" >>
GroupA == << "A", "1" >>
GroupB == << "B", "1" >>
GroupC == << "C", "2" >>

MapRows == << MapRow(GroupA, G1), MapRow(GroupB, G1), MapRow(GroupC, G2) >>

\* G1: UINT16 [100,151], FLOAT [200,202], BOOL [100,101], TEXT [400,406];
\* G2: UINT16 [300,301]
MemoryMap ==
    << Region(G1, "UINT16", 100, 52, 0), Region(G1, "FLOAT", 200, 2, 0),
       Region(G1, "BOOL", 100, 2, 0), Region(G1, "TEXT", 400, 7, 3),
       Region(G2, "UINT16", 300, 2, 0) >>

\* the same with a signed 16-bit region [101,102] inside the UINT16 region
MemoryMapConflict == Append(MemoryMap, Region(G1, "INT16", 101, 2, 0))

MemoryMaps == { MemoryMap, MemoryMapConflict }

\* the same with the region G2 UINT16 at [203,204], right after the end
\* address 202 of the FLOAT region
MemoryMapAdjacent == [ MemoryMap EXCEPT ![5] = Region(G2, "UINT16", 203, 2, 0) ]

\* the MEMORY_MAP sheets of the workbook a command reads
MemoryMapsOf(c) ==
    MemoryMaps \cup IF c = "generate" THEN { MemoryMapAdjacent } ELSE {}

Name(c, i) == << c, CharOrder[3 + i] >>

X1 == XmlTag(Name("E", 1), GroupA, "16BITS", "False", 100, << "d" >>)
X2 == XmlTag(Name("E", 2), GroupB, "16BITS", NAN, 150, << "d" >>)
X3 == XmlTag(Name("E", 3), GroupA, "16BITS", "False", 150, NULL)
X4 == XmlTag(Name("E", 4), GroupB, "FLOAT", NAN, 200, << "d" >>)
X5 == XmlTag(Name("E", 5), GroupA, "16BITS", "True", 101, << "d" >>)
X6 == XmlTag(Name("E", 6), GroupC, "DIGITAL", NAN, 100, << "d" >>)
X7 == XmlTag(Name("E", 7), GroupA, "FLOAT", NAN, 100, << "d" >>)
X8 == XmlTag(Name("E", 8), GroupB, "FLOAT", NAN, 150, << "d" >>)
\* tags under the names the second BASE row and the second GENERATE row give
X9 == XmlTag(Name("N", 2), GroupA, "16BITS", "False", 100, << "d" >>)
X10 == XmlTag(Name("X", 2) \o << "S" >>, GroupA, "16BITS", "False", 101, << "d" >>)

\* export files: one or two groups of G1 in use, with different and with
\* equal highest addresses, other formats in use, another region in use, names
\* of the TAGS sheet in use
ExportFiles ==
    { << X1 >>, << X2, X1 >>, << X3, X2 >>, << X4, X1 >>, << X5 >>, << X6 >>,
      << X1, X3 >>, << X5, X2 >>, << X6, X1 >>, << X8, X7 >>, << X9, X10 >> }

\* a tag outside every group, and tags of a group without a MAP row
GroupD == << "D", "9" >>
R1 == XmlTag(Name("R", 1), NULL, "16BITS", "False", 10, << "d" >>)
U1 == XmlTag(Name("U", 1), GroupD, "16BITS", "False", 120, << "d" >>)
U2 == XmlTag(Name("U", 2), GroupD, "FLOAT", NAN, 160, << "d" >>)

RootTagFiles ==
    { << R1 >>, << U1 >>, << X1, R1 >>, << U1, X1 >>, << X2, R1, X1 >>,
      << U1, R1, X1 >>, << X3, U2, X2, U1 >>, << R1, U1 >> }

\* the export files a command is run on: tabulate reads all the files with
\* tags outside the mapped groups, the other commands two of them
ExportFilesOf(c) ==
    IF c = "tabulate" THEN ExportFiles \cup RootTagFiles
    ELSE ExportFiles \cup { << U1, X1 >>, << X1, R1 >> }

\* the (MEM_ID, type) of a pending TagIntent
IntentKeys ==
    { << G1, "UINT16" >>, << G1, "FLOAT" >>, << G1, "BOOL" >>, << G1, "TEXT" >>,
      << G2, "UINT16" >> }

\* the TAGS sheet that asks for the intents ks: a BASE row and a GENERATE row
\* (with a template of its own) for each
TagsSheet(ks) ==
    MapRows
      \o [ i \in 1..Len(ks) |->
             TagsRow("GENERATE", NULL, << "X", CharOrder[3 + i], "*" >>, << "d", "*" >>,
                     Name("T", i), GroupA, ks[i][1], NAN) ]
      \o [ i \in 1..Len(ks) |->
             TagsRow("BASE", Name("N", i), NULL, << "d" >>, NULL, GroupA,
                     ks[i][1], ks[i][2]) ]

TemplateSheet(ks) ==
    [ i \in 1..Len(ks) |-> TemplateRow(Name("T", i), << "S" >>, ks[i][2], << "d" >>) ]

GenerateArgs ==
    { Args(<< "X" >>, NULL, NULL, NULL, 0, NULL, {}, FALSE, {}, NULL, ign) :
        ign \in BOOLEAN }

CreateArgs ==
    { Args(NULL, << >>, << >>, NULL, 0, NULL, {}, FALSE, {}, NULL, FALSE) }

CloneArgs ==
    { Args(NULL, << "E" >>, << >>, NULL, off, << "2" >>, Digits, blind, {}, NULL, ign) :
        off \in { 0, 200 }, blind \in BOOLEAN, ign \in BOOLEAN }

\* tabulate xmlsummary with --mapped and --root_tags set or not
TabulateArgs ==
    { [ mapped |-> m, root_tags |-> r ]
        @@ Args(NULL, NULL, NULL, NULL, 0, NULL, {}, FALSE, {}, NULL, FALSE) :
        m \in BOOLEAN, r \in BOOLEAN }

ArgsOf(c) ==
    CASE c = "generate" -> GenerateArgs
      [] c = "tabulate" -> TabulateArgs
      [] c = "create" -> CreateArgs
      [] c = "clone" -> CloneArgs

\* the state before the command runs
Start ==
    /\ twinsoft_tags_df = << >>
    /\ err_df = << >>
    /\ pending_tags_df = << >>
    /\ gen_df = << >>
    /\ pc = "start"
    /\ error = NoError
    /\ write_xml_file = << >>
    /\ clipboard = << >>

\* the pending sets a command is run on: clone reads no TagIntent of the
\* sheets
IntentsOf(c) ==
    IF c \in { "clone", "tabulate" } THEN { << << G1, "UINT16" >> >> }
    ELSE SeqsUpTo(IntentKeys, MaxPending) \ { << >> }

Init ==
    /\ cmd \in { "generate", "create", "clone", "tabulate" }
    /\ args \in ArgsOf(cmd)
    /\ memory_map_df \in MemoryMapsOf(cmd)
    /\ twinsoft_tag_export_file \in ExportFilesOf(cmd)
    /\ \E ks \in IntentsOf(cmd) :
         /\ tags_df = TagsSheet(ks)
         /\ template_df = TemplateSheet(ks)
    /\ Start

Spec == Init /\ [][Next]_vars

-----------------------------------------------------------------------------
(* Inputs whose names, descriptions and group paths vary *)

Group15 == GroupA \o << "\\" >> \o Rep("S", 15)
Group16 == GroupA \o << "\\" >> \o Rep("S", 16)

NameMapRows ==
    << MapRow(GroupA, G1), MapRow(Group15, G1), MapRow(Group16, G1) >>

NameRow(name, desc, group) == [ name |-> name, desc |-> desc, group |-> group ]

\* names with "__" inside, at the start and at the end, names of 15, 16 and
\* 17 characters, descriptions of 50 and 51, group segments of 15 and 16
NameRows ==
    { NameRow(<< "A", "B" >>, << "d" >>, GroupA),
      NameRow(<< "A", "_", "_", "B" >>, << "d" >>, GroupA),
      NameRow(<< "_", "_", "A", "B" >>, << "d" >>, GroupA),
      NameRow(<< "A", "B", "_", "_" >>, << "d" >>, GroupA),
      NameRow(Rep("C", 15), << "d" >>, GroupA),
      NameRow(Rep("D", 16), << "d" >>, GroupA),
      NameRow(<< "A", "E" >>, Rep("d", 50), GroupA),
      NameRow(<< "A", "F" >>, Rep("d", 51), GroupA),
      NameRow(<< "A", "G" >>, << "d" >>, Group15),
      NameRow(<< "A", "H" >>, << "d" >>, Group16),
      NameRow(<< "A", "_", "_" >> \o Rep("B", 14), Rep("d", 51), Group16),
      NameRow(<< "_", "_" >> \o Rep("E", 14), << "d" >>, GroupA) }

\* the TAGS sheet that asks for rows: a BASE row and a GENERATE row (its
\* pattern is the name itself) for each
NameTagsSheet(rows) ==
    NameMapRows
      \o [ i \in 1..Len(rows) |->
             TagsRow("GENERATE", NULL, rows[i].name, rows[i].desc, Name("T", i),
                     rows[i].group, G1, NAN) ]
      \o [ i \in 1..Len(rows) |->
             TagsRow("BASE", rows[i].name, NULL, rows[i].desc, NULL,
                     rows[i].group, G1, "UINT16") ]

NameTemplateSheet(rows) ==
    [ i \in 1..Len(rows) |-> TemplateRow(Name("T", i), << "S" >>, "UINT16", << "d" >>) ]

\* the export file clone reads the rows from; the other commands read X1
NameExportFile(c, rows) ==
    IF c = "clone"
    THEN [ i \in 1..Len(rows) |->
             XmlTag(rows[i].name, rows[i].group, "16BITS", "False", 100 + i, rows[i].desc) ]
    ELSE << X1 >>

NameArgs(c) ==
    CASE c = "generate" ->
           { Args(<< >>, NULL, NULL, NULL, 0, NULL, {}, FALSE, {}, NULL, FALSE) }
      [] c = "tabulate" -> TabulateArgs
      [] c = "create" -> CreateArgs
      [] c = "clone" ->
           { Args(NULL, << >>, << >>, NULL, 0, << "1" >>, Digits, blind, {}, NULL, ign) :
               blind \in BOOLEAN, ign \in BOOLEAN }

InitNames ==
    /\ cmd \in { "generate", "create", "clone", "tabulate" }
    /\ args \in NameArgs(cmd)
    /\ memory_map_df = MemoryMap
    /\ \E rows \in { r \in SeqsUpTo(NameRows, MaxRows) : r # << >> /\ Injective(r) } :
         /\ tags_df = NameTagsSheet(rows)
         /\ template_df = NameTemplateSheet(rows)
         /\ twinsoft_tag_export_file = NameExportFile(cmd, rows)
    /\ Start

SpecNames == InitNames /\ [][Next]_vars

-----------------------------------------------------------------------------
(* Properties of the Allocator *)

\* the address step of a type as the specification states it
StrideOfType(type, textlen) ==
    CASE type \in { "BOOL", "UINT8", "INT8", "UINT16", "INT16" } -> 1
      [] type \in { "UINT32", "INT32", "FLOAT" } -> 2
      [] type = "TEXT" -> textlen

\* the MEMORY_MAP region an intent names
RegionOf(p) ==
    CHOOSE m \in Range(memory_map_df) : m.MEM_ID = p.MEM_ID /\ m.MEM_TYPE = p.MEM_TYPE

\* the usage rows of the key (region, format, signedness) of an intent
UsageOf(p) ==
    LET Hit(u) == u.MEM_ID = p.MEM_ID /\ u.Format = p.TS_FORMAT /\ u.Signed = p.TS_SIGNED
    IN  SelectSeq(DropNa(ExportSummary(twinsoft_tags_df, tags_df)), Hit)

\* max_address_used of the key of an intent
MaxAddressUsed(p) == Max({ u.MB_MAX : u \in Range(UsageOf(p)) })

\* the number of earlier intents of the same (region, type)
IntentIndex(i) ==
    Cardinality({ j \in 1..(i - 1) :
                    /\ pending_tags_df[j].MEM_ID = pending_tags_df[i].MEM_ID
                    /\ pending_tags_df[j].MEM_TYPE = pending_tags_df[i].MEM_TYPE })

\* the rows of gen_df an intent got, and their addresses
ResultRows(i) == { n \in 1..Len(gen_df) : gen_df[n].TAG = pending_tags_df[i].TAG }
ResultAddresses(i) == { gen_df[n].CALC_ADDRESS : n \in ResultRows(i) }

\* the Allocator has run on the pending intents
Allocated == cmd # "clone" /\ gen_df # << >>

IntentStride(i) ==
    StrideOfType(pending_tags_df[i].MEM_TYPE, RegionOf(pending_tags_df[i]).TEXT_LEN)

\* C1: in a (region, type) whose key has no usage entry, the k-th intent
\* (k = 0, 1, 2, ... in input order) gets the address start_address + k * stride,
\* the stride being 1 for BOOL and the 8/16-bit types, 2 for the 32-bit types and
\* FLOAT, and text_length for TEXT.
C1_UntouchedRegion ==
    Allocated =>
      \A i \in 1..Len(pending_tags_df) :
        UsageOf(pending_tags_df[i]) = << >> =>
          ResultAddresses(i) =
            { RegionOf(pending_tags_df[i]).START_ADDRESS + IntentIndex(i) * IntentStride(i) }

\* three TEXT intents of an unused region of text length 3 are written at
\* 400, 403 and 406
C1_Witness ==
    /\ pc = "done" /\ cmd = "generate"
    /\ Len(pending_tags_df) = 3
    /\ \A i \in 1..3 : /\ pending_tags_df[i].MEM_TYPE = "TEXT"
                       /\ UsageOf(pending_tags_df[i]) = << >>
    /\ [ n \in 1..Len(write_xml_file) |-> write_xml_file[n].CALC_ADDRESS ] = << 400, 403, 406 >>

\* C2: where the key has a usage entry with maximum address M, the k-th intent
\* gets the address M + stride + k * stride.
C2_OccupiedRegion ==
    Allocated =>
      \A i \in 1..Len(pending_tags_df) :
        UsageOf(pending_tags_df[i]) # << >> =>
          ResultAddresses(i) =
            { MaxAddressUsed(pending_tags_df[i]) + IntentStride(i)
                + IntentIndex(i) * IntentStride(i) }

\* the usage rows of the key of intent i have the maxima 100 and 150, and the
\* intent is the first of its (region, type)
Maxima100And150(i) ==
    /\ { u.MB_MAX : u \in Range(UsageOf(pending_tags_df[i])) } = { 100, 150 }
    /\ IntentIndex(i) = 0

\* C3 as stated: when the usage rows of a region fall in groups with maxima 100
\* and 150, the next address is 151 + stride.
C3_AsStated ==
    Allocated =>
      \A i \in 1..Len(pending_tags_df) :
        Maxima100And150(i) => ResultAddresses(i) = { 151 + IntentStride(i) }

\* C3: when the usage rows of a region fall in groups with maxima 100 and 150,
\* the next address is computed from the larger maximum: it is 150 + stride, not
\* 100 + stride.
C3_MaxUsage ==
    Allocated =>
      \A i \in 1..Len(pending_tags_df) :
        Maxima100And150(i) =>
          /\ ResultAddresses(i) = { 150 + IntentStride(i) }
          /\ 100 + IntentStride(i) \notin ResultAddresses(i)

\* a UINT16 intent of a region whose groups end at 100 and 150 is written at 151
C3_Witness ==
    /\ pc = "done"
    /\ \E i \in 1..Len(pending_tags_df) :
         /\ Maxima100And150(i)
         /\ pending_tags_df[i].MEM_TYPE = "UINT16"
         /\ \E n \in 1..Len(write_xml_file) :
              /\ write_xml_file[n].TAG = pending_tags_df[i].TAG
              /\ write_xml_file[n].CALC_ADDRESS = 151

\* C4: when the usage table has several rows for the key of an intent, rows of
\* equal maximum included, the intent gets exactly one result, and its base is
\* the maximum address of those rows.
C4_OneResultPerIntent ==
    Allocated =>
      \A i \in 1..Len(pending_tags_df) :
        Len(UsageOf(pending_tags_df[i])) > 1 =>
          /\ Cardinality(ResultRows(i)) = 1
          /\ \A a \in ResultAddresses(i) :
               a >= MaxAddressUsed(pending_tags_df[i]) + IntentStride(i)

-----------------------------------------------------------------------------
(* Properties of the Validator *)

\* __validate_gen_df has run on gen_df
Validated ==
    /\ gen_df # << >>
    /\ pc \in { "approved", "done", "failed" }
    /\ ~(cmd = "clone" /\ args.ignore_map_errors)

\* the Validator has approved gen_df
Approved == Validated /\ pc \in { "approved", "done" }

BlindValidation == cmd = "clone" /\ args.blind_validation

\* the class of a result: BOOL results are the DIGITAL ones
IsBoolResult(r) == r.TS_FORMAT = "DIGITAL"

\* two results of one class at one address
OverlapInClass(df) ==
    \E i, j \in 1..Len(df) :
      /\ i < j
      /\ IsBoolResult(df[i]) = IsBoolResult(df[j])
      /\ df[i].CALC_ADDRESS = df[j].CALC_ADDRESS

DuplicateAddressErrors == { "TE_DUPLICATE_BOOL_ADDR", "TE_DUPLICATE_ANALOG_ADDR", "KeyError" }

\* C5: in every set the Validator approves, two BOOL results have different
\* addresses and two non-BOOL results have different addresses; a BOOL result
\* and a non-BOOL result at the same address are accepted, so a set is rejected
\* for duplicate addresses only when two results of one class share an address.
C5_NonOverlap ==
    /\ Approved => ~OverlapInClass(gen_df)
    /\ (Validated /\ error.kind \in DuplicateAddressErrors) => OverlapInClass(gen_df)

\* the MEMORY_MAP regions of the (region_id, format, signed) of a result
MatchingRegions(r) ==
    { m \in Range(memory_map_df) :
        m.MEM_ID = r.MEM_ID /\ m.TS_FORMAT = r.TS_FORMAT /\ m.TS_SIGNED = r.TS_SIGNED }

\* end_address as the specification derives it
EndOfRegion(m) ==
    IF m.MEM_TYPE \in { "INT32", "UINT32", "FLOAT" }
    THEN m.START_ADDRESS + m.LENGTH * 2 - 2
    ELSE m.START_ADDRESS + m.LENGTH - 1

InRegion(r, m) == m.START_ADDRESS <= r.CALC_ADDRESS /\ r.CALC_ADDRESS <= EndOfRegion(m)

\* some result lies outside a region matching it
SomeOutside(df) ==
    \E n \in 1..Len(df) : \E m \in MatchingRegions(df[n]) : ~InRegion(df[n], m)

\* the errors of the checks that run before the address check
EarlierErrors ==
    { "TE_DOUBLE_UNDERSCORES", "TE_TAG_NAME_TOO_LONG", "TE_TAG_DESC_TOO_LONG",
      "TE_MAP_GROUP_TOO_LONG" }

\* C6: without blind validation, every result of an approved set lies in
\* [start_address, end_address] of the region matching its (region_id, format,
\* signed), end_address being start + length - 1 for the 1-unit types and
\* start + length * 2 - 2 for INT32, UINT32 and FLOAT; a set with a result
\* outside is rejected, and with TE_CALC_ADDRESS_NOT_IN_MEMORY_MAP unless an
\* earlier check of the Validator has rejected it already.
C6_Bounds ==
    /\ (Approved /\ ~BlindValidation) =>
         \A n \in 1..Len(gen_df) :
           \A m \in MatchingRegions(gen_df[n]) : InRegion(gen_df[n], m)
    /\ (Validated /\ ~BlindValidation /\ SomeOutside(gen_df)) =>
         /\ pc = "failed"
         /\ error.kind \in { "TE_CALC_ADDRESS_NOT_IN_MEMORY_MAP" } \cup EarlierErrors

\* two FLOAT results, the second at the end address 200 + 2 * 2 - 2 of its
\* region, are written
C6_Witness ==
    /\ pc = "done" /\ Validated /\ ~BlindValidation
    /\ \E n \in 1..Len(write_xml_file) :
         /\ write_xml_file[n].MEM_TYPE = "FLOAT"
         /\ \E m \in MatchingRegions(write_xml_file[n]) :
              write_xml_file[n].CALC_ADDRESS = EndOfRegion(m)

\* C7: under blind validation no set is rejected with
\* TE_CALC_ADDRESS_NOT_IN_MEMORY_MAP, nor with TE_MEM_ID_NOT_FOUND, whatever its
\* addresses and whether or not its regions are in the memory map.
C7_BlindValidation ==
    (Validated /\ BlindValidation) =>
      error.kind \notin { "TE_CALC_ADDRESS_NOT_IN_MEMORY_MAP", "TE_MEM_ID_NOT_FOUND" }

HasDoubleUnderscore(tag) ==
    \E i \in 1..(Len(tag) - 1) : tag[i] = "_" /\ tag[i + 1] = "_"

\* a group path has a segment of more than 15 characters: 16 characters in a
\* row without a backslash
HasLongSegment(group) ==
    \E i \in 1..(Len(group) - 15) : \A j \in i..(i + 15) : group[j] # "\\"

\* a result breaks a check other than the address-bounds check
BreaksOtherCheck(df) ==
    \/ \E n \in 1..Len(df) :
         \/ HasDoubleUnderscore(df[n].TAG)
         \/ Len(df[n].TAG) > 15
         \/ (df[n].DESCRIPTION # NULL /\ Len(df[n].DESCRIPTION) > 50)
         \/ HasLongSegment(df[n].TS_GROUP)
    \/ OverlapInClass(df)

\* C8: with ignore_map_errors set, a cloned set that has a name with two
\* consecutive underscores, a name of more than 15 characters, a description of
\* more than 50, a group segment of more than 15 or a duplicate address within
\* a class is still rejected: it is neither approved nor written.
C8_IgnoreMapErrors ==
    (cmd = "clone" /\ args.ignore_map_errors /\ BreaksOtherCheck(gen_df)) =>
      pc \notin { "approved", "done" }

\* C9: the Validator rejects with TE_DOUBLE_UNDERSCORES every set that has a
\* name with two consecutive underscores at any position, the start and the end
\* of the name included.
C9_DoubleUnderscores ==
    (Validated /\ \E n \in 1..Len(gen_df) : HasDoubleUnderscore(gen_df[n].TAG)) =>
      pc = "failed" /\ error.kind = "TE_DOUBLE_UNDERSCORES"

\* the names of more than 15 characters, in the order of the rows
LongNames(df) ==
    LET Long(t) == Len(t) > 15
    IN  SelectSeq([ n \in 1..Len(df) |-> df[n].TAG ], Long)

\* C10: the Validator rejects every set that has a name of more than 15
\* characters, with TE_TAG_NAME_TOO_LONG unless the double-underscore check
\* before it has rejected the set; the error lists every such name; a set whose
\* names all have at most 15 characters is never rejected with it.
C10_TagNameTooLong ==
    /\ (Validated /\ LongNames(gen_df) # << >>) =>
         /\ pc = "failed"
         /\ error.kind \in { "TE_TAG_NAME_TOO_LONG", "TE_DOUBLE_UNDERSCORES" }
    /\ (Validated /\ error.kind = "TE_TAG_NAME_TOO_LONG") =>
         /\ LongNames(gen_df) # << >>
         /\ error.rows = LongNames(gen_df)
    /\ (Validated /\ LongNames(gen_df) # << >>
          /\ \A n \in 1..Len(gen_df) : ~HasDoubleUnderscore(gen_df[n].TAG)) =>
         error.kind = "TE_TAG_NAME_TOO_LONG"

\* a set with two names of 16 characters, one of them starting with "__", is
\* rejected and both names are listed
C10_Witness ==
    /\ pc = "failed" /\ Validated
    /\ error.kind = "TE_TAG_NAME_TOO_LONG"
    /\ Len(error.rows) = 2
    /\ Len(gen_df) = 2

-----------------------------------------------------------------------------
(* The order of the Validator's checks *)

\* two results of the class (BOOL or not) at one address
OverlapIn(df, bool) ==
    \E i, j \in 1..Len(df) :
      /\ i < j
      /\ IsBoolResult(df[i]) = bool /\ IsBoolResult(df[j]) = bool
      /\ df[i].CALC_ADDRESS = df[j].CALC_ADDRESS

\* the error of the earliest rule, in the order of the specification, that a
\* set violates ("none": it violates no rule)
FirstViolated(df) ==
    IF \E n \in 1..Len(df) : HasDoubleUnderscore(df[n].TAG) THEN "TE_DOUBLE_UNDERSCORES"
    ELSE IF \E n \in 1..Len(df) : Len(df[n].TAG) > 15 THEN "TE_TAG_NAME_TOO_LONG"
    ELSE IF \E n \in 1..Len(df) : df[n].DESCRIPTION # NULL /\ Len(df[n].DESCRIPTION) > 50
    THEN "TE_TAG_DESC_TOO_LONG"
    ELSE IF \E n \in 1..Len(df) : HasLongSegment(df[n].TS_GROUP) THEN "TE_MAP_GROUP_TOO_LONG"
    ELSE IF ~BlindValidation /\ SomeOutside(df) THEN "TE_CALC_ADDRESS_NOT_IN_MEMORY_MAP"
    ELSE IF OverlapIn(df, TRUE) THEN "TE_DUPLICATE_BOOL_ADDR"
    ELSE IF OverlapIn(df, FALSE) THEN "TE_DUPLICATE_ANALOG_ADDR"
    ELSE "none"

\* C11: the checks run in the order double underscore, name length,
\* description length, group segment length, address bounds, duplicate BOOL
\* address, duplicate non-BOOL address; a set that violates rules gets the one
\* error of the earliest rule it violates.
C11_ValidatorOrder ==
    (Validated /\ FirstViolated(gen_df) # "none") =>
      pc = "failed" /\ error.kind = FirstViolated(gen_df)

-----------------------------------------------------------------------------
(* Inputs whose MEMORY_MAP sheet varies *)

\* BOOL [0,99] and [50,149]; non-BOOL [0,99], [100,151], FLOAT [98,100] and
\* [99,100]; one row per (MEM_ID, MEM_TYPE)
RegionRows ==
    { Region(G1, "BOOL", 0, 100, 0), Region(G2, "BOOL", 50, 100, 0),
      Region(G2, "UINT16", 0, 100, 0), Region(G1, "UINT16", 100, 52, 0),
      Region(G1, "FLOAT", 98, 2, 0), Region(G2, "INT16", 99, 2, 0) }

InitMap ==
    /\ cmd \in { "generate", "create", "clone", "tabulate" }
    /\ args \in ArgsOf(cmd)
    /\ memory_map_df \in { m \in SeqsUpTo(RegionRows, MaxRegions) : m # << >> /\ Injective(m) }
    /\ twinsoft_tag_export_file = << X1 >>
    /\ tags_df = TagsSheet(<< << G1, "UINT16" >> >>)
    /\ template_df = TemplateSheet(<< << G1, "UINT16" >> >>)
    /\ Start

SpecMap == InitMap /\ [][Next]_vars

-----------------------------------------------------------------------------
(* Properties of the region overlap check *)

\* load_data has got as far as the memory map
MemoryMapLoaded ==
    cmd # "tabulate" /\ pc # "start" /\ error.kind \notin { "TE_DUPLICATE_TAG_NAME", "ExcelProcessorError" }

\* the unordered pairs of rows of one class whose inclusive intervals meet
OverlappingPairs(map) ==
    { pair \in SUBSET (1..Len(map)) :
        /\ Cardinality(pair) = 2
        /\ \E i, j \in pair :
             /\ i < j
             /\ (map[i].MEM_TYPE = "BOOL") = (map[j].MEM_TYPE = "BOOL")
             /\ map[i].START_ADDRESS <= EndOfRegion(map[j])
             /\ map[j].START_ADDRESS <= EndOfRegion(map[i]) }

\* the pair of rows a reported conflict names
ReportedPair(map, e) ==
    { i \in 1..Len(map) :
        \/ (map[i].MEM_ID = e.ORIGIN_GROUP /\ map[i].MEM_TYPE = e.ORIGIN_FORMAT)
        \/ (map[i].MEM_ID = e.CONFLICT_GROUP /\ map[i].MEM_TYPE = e.CONFLICT_FORMAT) }

\* C12: the check reports exactly the unordered pairs of distinct regions of
\* one class (both BOOL or both non-BOOL) whose inclusive intervals
\* [start, end] intersect, every such pair once, and no pair of different
\* classes.
C12_RegionOverlap ==
    MemoryMapLoaded =>
      /\ \A k \in 1..Len(err_df) :
           ReportedPair(memory_map_df, err_df[k]) \in OverlappingPairs(memory_map_df)
      /\ \A pair \in OverlappingPairs(memory_map_df) :
           Cardinality({ k \in 1..Len(err_df) :
                           ReportedPair(memory_map_df, err_df[k]) = pair }) = 1

\* BOOL [0,99], BOOL [50,149] and non-BOOL [0,99]: one conflict, of the two
\* BOOL regions
C12_Witness ==
    /\ MemoryMapLoaded
    /\ Range(memory_map_df) =
         { Region(G1, "BOOL", 0, 100, 0), Region(G2, "BOOL", 50, 100, 0),
           Region(G2, "UINT16", 0, 100, 0) }
    /\ Len(err_df) = 1
    /\ err_df[1].ORIGIN_FORMAT = "BOOL" /\ err_df[1].CONFLICT_FORMAT = "BOOL"

\* the ignore-errors flag of the run; create has none
IgnoreFlag == cmd # "create" /\ args.ignore_map_errors

\* C13: the overlap check completes before any address is allocated or any
\* output written; when it finds a conflict and the ignore-errors flag is not
\* set the run stops with TE_MEMORY_MAP_CONFLICT, nothing allocated and nothing
\* written; when the flag is set no run ends with that error.
C13_OverlapBeforeAllocation ==
    /\ pc = "start" => (pending_tags_df = << >> /\ gen_df = << >> /\ write_xml_file = << >>)
    /\ (MemoryMapLoaded /\ ~IgnoreFlag /\ OverlappingPairs(memory_map_df) # {}) =>
         /\ pc = "failed" /\ error.kind = "TE_MEMORY_MAP_CONFLICT"
         /\ pending_tags_df = << >> /\ gen_df = << >> /\ write_xml_file = << >>
    /\ IgnoreFlag => error.kind # "TE_MEMORY_MAP_CONFLICT"

\* a generate run with the flag set and a conflict in the memory map has
\* allocated and written its tags
C13_Witness ==
    /\ cmd = "generate" /\ IgnoreFlag
    /\ OverlappingPairs(memory_map_df) # {}
    /\ err_df # << >>
    /\ pc = "done" /\ write_xml_file # << >>

-----------------------------------------------------------------------------
(* Inputs for clone: filters, offsets, destination and group find/replace *)

GroupCS == << "C", "1", "\\", "S", "1" >>
GroupC1 == << "C", "1" >>

CloneMapRows == << MapRow(GroupCS, G1), MapRow(GroupC1, G1), MapRow(GroupB, G1) >>

\* G1: UINT16 [1000,1099], FLOAT [1200,1298]; G2: UINT16 [1500,1599]
CloneMemoryMap ==
    << Region(G1, "UINT16", 1000, 100, 0), Region(G1, "FLOAT", 1200, 50, 0),
       Region(G2, "UINT16", 1500, 100, 0) >>

\* a name and a comment with two digits in a group path with two digits; a
\* name without a digit and no comment; a FLOAT tag whose comment has no digit
K1 == XmlTag(<< "P", "1", "T", "1" >>, GroupCS, "16BITS", "False", 1000, << "d", "1", "1" >>)
K2 == XmlTag(<< "P", "T" >>, GroupC1, "16BITS", "False", 1001, NULL)
K3 == XmlTag(<< "Q", "1" >>, GroupB, "FLOAT", NAN, 1200, << "d" >>)
\* a tag of another group at the address of K1
K4 == XmlTag(<< "P", "4" >>, GroupC1, "16BITS", "False", 1000, NULL)

\* a tag whose name differs from that of K1 in its first digit only
K5 == XmlTag(<< "P", "3", "T", "1" >>, GroupCS, "16BITS", "False", 1010, NULL)

\* a tag the name filter P leaves out, at the address of K1 plus the offset
K6 == XmlTag(<< "Q", "6" >>, GroupC1, "16BITS", "False", 1500, NULL)

CloneExportFiles ==
    { << K1 >>, << K2 >>, << K3, K1 >>, << K1, K2 >>, << K2, K3, K1 >>, << K1, K4 >>,
      << K1, K5 >>, << K1, K6 >> }

\* the TAGS sheet: the MAP rows, and one GENERATE and one BASE row
CloneTagsSheet ==
    CloneMapRows
      \o << TagsRow("GENERATE", NULL, << "X", "1", "*" >>, << "d", "*" >>,
                    Name("T", 1), GroupC1, G1, NAN),
            TagsRow("BASE", Name("N", 1), NULL, << "d" >>, NULL, GroupC1, G1, "UINT16") >>

\* a TAGS sheet whose GENERATE pattern has no '*', and a template with two
\* suffix rows for it
StarlessTagsSheet ==
    CloneMapRows
      \o << TagsRow("GENERATE", NULL, << "X", "1" >>, << "d" >>,
                    Name("T", 1), GroupC1, G1, NAN) >>

TwoSuffixTemplate ==
    << TemplateRow(Name("T", 1), << "S" >>, "UINT16", << "d" >>),
       TemplateRow(Name("T", 1), << "R" >>, "UINT16", << "d" >>) >>

\* the TAGS and TEMPLATE sheets of the workbook a command reads
CloneSheetsOf(c) ==
    { << CloneTagsSheet, TemplateSheet(<< << G1, "UINT16" >> >>) >> }
      \cup IF c = "generate" THEN { << StarlessTagsSheet, TwoSuffixTemplate >> } ELSE {}

\* the group find/replace options: none, a pair, a pattern without replacement
GroupFindReplace ==
    { << {}, NULL >>, << { << "S" >> }, << "R" >> >>, << { << "S" >> }, NULL >> }

CloneFamilyArgs(c) ==
    IF c = "clone"
    THEN { Args(NULL, tf, gf, dest, off, << "2" >>, Digits, blind, fr[1], fr[2], ign) :
             tf \in { << >>, << "P" >>, << "Z" >> }, gf \in { << >>, << "C" >> },
             dest \in { NULL, << "D" >> }, off \in { 0, 500 },
             blind \in BOOLEAN, ign \in BOOLEAN, fr \in GroupFindReplace }
    ELSE ArgsOf(c)

InitClone ==
    /\ cmd \in { "generate", "create", "clone", "tabulate" }
    /\ args \in CloneFamilyArgs(cmd)
    /\ memory_map_df = CloneMemoryMap
    /\ twinsoft_tag_export_file \in CloneExportFiles
    /\ \E sheets \in CloneSheetsOf(cmd) :
         /\ tags_df = sheets[1]
         /\ template_df = sheets[2]
    /\ Start

SpecClone == InitClone /\ [][Next]_vars

-----------------------------------------------------------------------------
(* Properties of the Cloner *)

\* clone has built its set from a selection that is not empty
ClonedSet == cmd = "clone" /\ gen_df # << >>

\* the <Tag> elements of the export file that both filters select
SelectedTags ==
    { i \in 1..Len(twinsoft_tag_export_file) :
        /\ StrContains(twinsoft_tag_export_file[i].Tag, args.tag_filter)
        /\ StrContains(twinsoft_tag_export_file[i].Group, args.group_filter) }

\* tags i and j of the export file have one group, format and address
SameSource(i, j) ==
    /\ twinsoft_tag_export_file[i].Group = twinsoft_tag_export_file[j].Group
    /\ twinsoft_tag_export_file[i].Format = twinsoft_tag_export_file[j].Format
    /\ twinsoft_tag_export_file[i].ModbusAddress = twinsoft_tag_export_file[j].ModbusAddress

\* the results that carry the group and format of source tag i and its address
\* plus the offset
ShiftedFrom(i) ==
    { n \in 1..Len(gen_df) :
        /\ gen_df[n].Group = twinsoft_tag_export_file[i].Group
        /\ gen_df[n].TS_FORMAT = twinsoft_tag_export_file[i].Format
        /\ gen_df[n].CALC_ADDRESS =
             twinsoft_tag_export_file[i].ModbusAddress + args.address_offset }

\* C14: every selected source tag has one cloned result, whose address is the
\* source address plus the offset (1000 with offset 500 gives 1500); the cloned
\* set has no other result, and the Allocator does not run on it.
C14_CloneAddressShift ==
    ClonedSet =>
      /\ Len(gen_df) = Cardinality(SelectedTags)
      /\ \A i \in SelectedTags :
           Cardinality(ShiftedFrom(i)) = Cardinality({ j \in SelectedTags : SameSource(i, j) })
      /\ pending_tags_df = << >> /\ pc # "pending"
      /\ pc = "done" => write_xml_file = gen_df

\* of the tags P1T1 at 1000 and Q1 at 1200 the name filter P selects the
\* first, and with offset 500 its clone is written at 1500
C14_Witness ==
    /\ ClonedSet /\ pc = "done"
    /\ twinsoft_tag_export_file = << K3, K1 >>
    /\ args.tag_filter = << "P" >> /\ args.address_offset = 500
    /\ [ n \in 1..Len(write_xml_file) |-> write_xml_file[n].CALC_ADDRESS ] = << 1500 >>

\* the first character of a text that a pattern of single characters matches
\* (0: none)
FirstHit(s, pat) ==
    IF \E i \in 1..Len(s) : << s[i] >> \in pat
    THEN Min({ i \in 1..Len(s) : << s[i] >> \in pat })
    ELSE 0

\* the text with its first match substituted; an empty cell and a text without
\* a match stay as they are
SubstFirst(s, pat, repl) ==
    IF s = NULL \/ FirstHit(s, pat) = 0 THEN s
    ELSE SubSeq(s, 1, FirstHit(s, pat) - 1) \o repl \o SubSeq(s, FirstHit(s, pat) + 1, Len(s))

\* the text with every match substituted
SubstAll(s, pat, repl) ==
    Concat([ i \in 1..Len(s) |-> IF << s[i] >> \in pat THEN repl ELSE << s[i] >> ])

\* the region key the TAGS sheet maps a group to
RegionKeyOf(group) ==
    (CHOOSE r \in Range(tags_df) : r.CLASS = "MAP" /\ r.TS_GROUP = group).MEM_ID

C16_WitnessPair ==
    /\ ClonedSet /\ pc = "done"
    /\ args.dest = NULL /\ args.group_pattern = { << "S" >> }
    /\ \E n \in 1..Len(write_xml_file) :
         write_xml_file[n].TS_GROUP = << "C", "1", "\\", "R", "1" >>

\* the errors of the command line and of load_data
LoadErrors ==
    { "ExcelProcessorError", "TE_DUPLICATE_TAG_NAME", "TE_MEMORY_MAP_CONFLICT",
      "TE_XML_ROOT_KEY_NOT_FOUND", "TE_MAP_ENTRY_MISSING" }

\* the run has got past load_data
PastLoad == pc \notin { "start", "loaded" } /\ error.kind \notin LoadErrors

\* C17: when no tag of the export file matches both the name filter and the
\* group filter, clone ends with TE_PATTERN_NOT_FOUND, whatever
\* blind_validation and ignore_map_errors are, and writes no output; clone
\* ends with that error in no other case.
C17_CloneEmptySelection ==
    /\ (cmd = "clone" /\ PastLoad /\ SelectedTags = {}) =>
         /\ pc = "failed" /\ error.kind = "TE_PATTERN_NOT_FOUND"
         /\ gen_df = << >> /\ write_xml_file = << >>
    /\ (cmd = "clone" /\ error.kind = "TE_PATTERN_NOT_FOUND") => SelectedTags = {}

\* with both flags set, the name filter Z selects nothing and the run has
\* ended with the error
C17_Witness ==
    /\ cmd = "clone" /\ args.blind_validation /\ args.ignore_map_errors
    /\ args.tag_filter = << "Z" >> /\ twinsoft_tags_df # << >>
    /\ pc = "failed" /\ error.kind = "TE_PATTERN_NOT_FOUND"
    /\ write_xml_file = << >>

\* the names the run produces, and the names of the export file
ProducedNames ==
    IF cmd = "clone" THEN { gen_df[i].TAG : i \in 1..Len(gen_df) }
    ELSE { pending_tags_df[i].TAG : i \in 1..Len(pending_tags_df) }

ExportNames == { twinsoft_tags_df[i].Tag : i \in 1..Len(twinsoft_tags_df) }

NameCollision == ProducedNames \cap ExportNames # {}

\* the errors generate_tags raises before it compares the names
BeforeTagsExist == { "TE_TEMPLATE_NOT_FOUND", "TE_MEM_ID_NOT_FOUND" }

\* C18: a generate, create or clone run that produces a name of the export
\* file ends with TE_TAGS_EXIST and writes no output; for clone this includes
\* a name the substitution leaves as it is.
C18_TagAlreadyExists ==
    (NameCollision /\ pc \in { "done", "failed" }) =>
        /\ pc = "failed" /\ write_xml_file = << >>
        /\ error.kind \in { "TE_TAGS_EXIST" } \cup BeforeTagsExist

\* the same for generate and create alone
C18_GenerateCreate == cmd # "clone" => C18_TagAlreadyExists

C18_GenerateCreateWitness ==
    /\ cmd # "clone" /\ NameCollision
    /\ pc = "failed" /\ error.kind = "TE_TAGS_EXIST"

\* a clone whose name has no digit is written under its source name
C18_CloneWitness ==
    /\ cmd = "clone" /\ NameCollision /\ pc = "done"
    /\ write_xml_file # << >>

-----------------------------------------------------------------------------
(* The output file *)

\* ignore_map_errors of clone, which the specification lets skip the address
\* check
SkipsAddressCheck == cmd = "clone" /\ args.ignore_map_errors

\* the set passes every check of the Validator that applies to the run: the
\* address check applies unless blind validation or ignore_map_errors is set
PassesApplicableChecks(df) ==
    /\ \A n \in 1..Len(df) :
         /\ ~HasDoubleUnderscore(df[n].TAG)
         /\ Len(df[n].TAG) <= 15
         /\ df[n].DESCRIPTION = NULL \/ Len(df[n].DESCRIPTION) <= 50
         /\ ~HasLongSegment(df[n].TS_GROUP)
    /\ BlindValidation \/ SkipsAddressCheck \/ ~SomeOutside(df)
    /\ ~OverlapIn(df, TRUE)
    /\ ~OverlapIn(df, FALSE)

\* the checks of load_data have passed
PassesLoadChecks ==
    /\ ~DuplicateTagName(tags_df)
    /\ IgnoreFlag \/ OverlappingPairs(memory_map_df) = {}
    /\ twinsoft_tags_df # << >> /\ MissingMap(twinsoft_tags_df) = << >>

\* the output file is written last, and by a run without an error
WrittenLast ==
    /\ write_xml_file # << >> =>
         pc = "done" /\ error = NoError /\ write_xml_file = gen_df
    /\ pc = "failed" => write_xml_file = << >>

\* C19: the output file is written only after the catalog checks, the region
\* overlap check, the snapshot reconciliation and every applicable check of
\* the Validator have passed; a run that ends with an error has written
\* nothing.
C19_NoPartialOutput ==
    /\ WrittenLast
    /\ write_xml_file # << >> =>
         PassesLoadChecks /\ PassesApplicableChecks(write_xml_file)

\* the same, leaving out the sets the Validator is not run on and the names
\* that begin or end with "__"
C19_OtherRuns ==
    (/\ ~SkipsAddressCheck
     /\ \A n \in 1..Len(gen_df) :
          HasDoubleUnderscore(gen_df[n].TAG) => DoubleUnderscore(gen_df[n].TAG))
      => C19_NoPartialOutput

\* clone with ignore_map_errors has written a name of 16 characters
C19_WrittenUnchecked ==
    /\ SkipsAddressCheck /\ pc = "done"
    /\ \E n \in 1..Len(write_xml_file) : Len(write_xml_file[n].TAG) > 15

-----------------------------------------------------------------------------
(* The Allocator run again *)

\* the address the first intent of the group of result n gets
BaseOfResult(n) ==
    IF gen_df[n].HAS_DATA
    THEN gen_df[n].MB_MAX + StrideOfType(gen_df[n].MEM_TYPE, gen_df[n].TEXT_LEN)
    ELSE gen_df[n].START_ADDRESS

\* the zero-based index the Allocator gave result n within its group
IndexOfResult(n) ==
    (gen_df[n].CALC_ADDRESS - BaseOfResult(n))
      \div StrideOfType(gen_df[n].MEM_TYPE, gen_df[n].TEXT_LEN)

\* the Allocator run once more on the pending set and the usage summary
\* of the run
AllocatedAgain ==
    GenerateAddressing(DropNa(ExportSummary(twinsoft_tags_df, tags_df)), pending_tags_df)

\* the usage rows of the key of intent i with the highest address
TiedMaxima(i) ==
    { k \in 1..Len(UsageOf(pending_tags_df[i])) :
        UsageOf(pending_tags_df[i])[k].MB_MAX = MaxAddressUsed(pending_tags_df[i]) }

\* C20: the Allocator run again on the same pending sequence and the same
\* usage summary gives every intent the same calc_address, and the zero-based
\* index of an intent within its (has_data, region_id, type) group is the
\* number of intents of that group that precede it in input order.
C20_AllocatorIdempotence ==
    Allocated =>
      /\ AllocatedAgain = gen_df
      /\ \A i \in 1..Len(pending_tags_df) :
           /\ ResultRows(i) # {}
           /\ \A n \in ResultRows(i) : IndexOfResult(n) = IntentIndex(i)

\* the same for the intents whose group has no two usage rows with the
\* highest address
C20_WithoutTies ==
    Allocated =>
      /\ AllocatedAgain = gen_df
      /\ \A i \in 1..Len(pending_tags_df) :
           (\A j \in 1..i :
              SameRegionType(pending_tags_df[j], pending_tags_df[i]) =>
                Cardinality(TiedMaxima(j)) <= 1) =>
             /\ ResultRows(i) # {}
             /\ \A n \in ResultRows(i) : IndexOfResult(n) = IntentIndex(i)

\* three intents of one group stand behind an intent of another group and
\* have the indexes 0, 1, 2; two usage rows with the same highest address give
\* the second intent of a group the index 2
C20_IndexWitness ==
    /\ Allocated /\ Len(pending_tags_df) = 3 /\ Len(gen_df) = 3
    /\ IntentIndex(3) = 1 /\ IntentIndex(2) = 0 /\ IntentIndex(1) = 0
    /\ \A i \in 1..3 : \A n \in ResultRows(i) : IndexOfResult(n) = IntentIndex(i)

C20_TieWitness ==
    /\ Allocated
    /\ \E i \in 1..Len(pending_tags_df) :
         /\ IntentIndex(i) = 1
         /\ \E n \in ResultRows(i) : IndexOfResult(n) = 2

-----------------------------------------------------------------------------
(* The regions of a cloned set *)

\* the results whose rewritten region key names no region of their format and
\* signedness
Unmatched == { n \in 1..Len(gen_df) : MatchingRegions(gen_df[n]) = {} }

\* C21: with blind validation inactive, every tag of an approved cloned set
\* has a region under its rewritten region key whose format and signedness are
\* those of the source tag; a set with a tag without such a region is
\* rejected, also when other tags of the set have one.
C21_CloneTypeConsistency ==
    (ClonedSet /\ Validated /\ ~BlindValidation /\ Unmatched # {}) => pc = "failed"

\* the same for the sets none of whose tags has a region
C21_NoneMatches ==
    (ClonedSet /\ Validated /\ ~BlindValidation /\ Unmatched = 1..Len(gen_df)) =>
      pc = "failed"

\* a cloned set with a FLOAT tag without a region and a 16-bit tag with one
\* has been written
C21_PartlyMatched ==
    /\ ClonedSet /\ Validated /\ ~BlindValidation /\ pc = "done"
    /\ Unmatched # {} /\ Unmatched # 1..Len(gen_df)
    /\ \E n \in Unmatched : write_xml_file[n].TS_FORMAT = "FLOAT"

-----------------------------------------------------------------------------
(* Properties of the Usage Summarizer *)

\* the group of a tag of the export file has no MAP row (a tag outside every
\* group has none)
NoMapping(t) == \A i \in 1..Len(tags_df) : tags_df[i].CLASS = "MAP" => tags_df[i].TS_GROUP # t.Group

UnmappedTags == { i \in 1..Len(twinsoft_tag_export_file) : NoMapping(twinsoft_tag_export_file[i]) }

\* the export file without those tags
MappedFile ==
    LET Mapped(t) == ~NoMapping(t) IN SelectSeq(twinsoft_tag_export_file, Mapped)

\* the summary tabulate gives for the export file without the unmapped tags
SummaryOfMapped ==
    LET x == IF MappedFile = << >> THEN << >>
             ELSE ExportSummary(MergeMap(TwinsoftExportToDf(MappedFile), tags_df), tags_df)
    IN  IF args.mapped THEN AsMemoryMap(x) ELSE x

\* tabulate has summarized the export file, or failed
Summarized == cmd = "tabulate" /\ pc \in { "done", "failed" }

\* C22: without the root-tags relaxation, an export file with a tag whose
\* group has no mapping makes the summary fail with an error; with the
\* relaxation the summary succeeds, no row of it comes from a tag without a
\* mapped group, and the rows of the mapped groups are those of the file
\* without such tags.
C22_UnmappedTags ==
    Summarized =>
      /\ (~args.root_tags /\ UnmappedTags # {}) => (pc = "failed" /\ error.kind # "none")
      /\ args.root_tags =>
           /\ pc = "done"
           /\ \A n \in 1..Len(clipboard) : clipboard[n].MEM_ID # NULL
           /\ clipboard = SummaryOfMapped

\* the same for the export files whose unmapped tags are outside every group
C22_RootTagsOnly ==
    (\A i \in UnmappedTags : twinsoft_tag_export_file[i].Group = NULL) => C22_UnmappedTags

\* generate, create and clone stop at a tag whose group has no mapping
C22_LoadData ==
    (cmd # "tabulate" /\ pc # "start" /\ UnmappedTags # {}) =>
      /\ pc = "failed"
      /\ error.kind \in { "TE_MAP_ENTRY_MISSING", "TE_MEMORY_MAP_CONFLICT" }
      /\ gen_df = << >> /\ write_xml_file = << >>

\* with the relaxation, the summary has a row for a group without a MAP row
C22_UnmappedRow ==
    /\ Summarized /\ args.root_tags /\ pc = "done"
    /\ \E n \in 1..Len(clipboard) : clipboard[n].MEM_ID = NULL

\* a tag outside every group is left out of the summary, which has the rows
\* of the mapped groups
C22_RootTagLeftOut ==
    /\ Summarized /\ args.root_tags /\ pc = "done"
    /\ \E i \in UnmappedTags : twinsoft_tag_export_file[i].Group = NULL
    /\ clipboard # << >> /\ clipboard = SummaryOfMapped

\* generate has stopped at a tag of a group without a MAP row
C22_LoadStopped ==
    /\ cmd = "generate" /\ pc = "failed" /\ error.kind = "TE_MAP_ENTRY_MISSING"
    /\ \E i \in UnmappedTags : twinsoft_tag_export_file[i].Group # NULL

-----------------------------------------------------------------------------
(* The documented examples of clone *)

\* clone is invoked with --group_find and --dest and without --group_replace
FindAndDest ==
    /\ cmd = "clone" /\ args.group_pattern # {}
    /\ args.group_replace = NULL /\ args.dest # NULL

\* C23: clone invoked with --group_find and --dest, and without
\* --group_replace, performs the clone and gives every cloned tag the group of
\* --dest.
C23_GroupFindWithDest ==
    (FindAndDest /\ pc # "start") =>
      /\ error.kind # "ExcelProcessorError"
      /\ SelectedTags # {} => gen_df # << >>
      /\ \A n \in 1..Len(gen_df) : gen_df[n].TS_GROUP = args.dest

\* the invocation has ended before load_data, nothing cloned
C23_Rejected ==
    /\ FindAndDest /\ SelectedTags # {}
    /\ pc = "failed" /\ error.kind = "ExcelProcessorError"
    /\ twinsoft_tags_df = << >> /\ gen_df = << >>

-----------------------------------------------------------------------------
(* The rows a duplicate-address error reports *)

\* the Validator has rejected the set for duplicate addresses
DuplicateRejected ==
    Validated /\ error.kind \in { "TE_DUPLICATE_BOOL_ADDR", "TE_DUPLICATE_ANALOG_ADDR" }

\* the results of the class the error is about
OfErrorClass(n) == IsBoolResult(gen_df[n]) = (error.kind = "TE_DUPLICATE_BOOL_ADDR")

\* the results that share their address with another result of that class
SharingAddress ==
    { n \in 1..Len(gen_df) :
        /\ OfErrorClass(n)
        /\ \E m \in 1..Len(gen_df) :
             m # n /\ OfErrorClass(m) /\ gen_df[m].CALC_ADDRESS = gen_df[n].CALC_ADDRESS }

\* the results that share their address with an earlier result of that class
SharingWithEarlier ==
    { n \in 1..Len(gen_df) :
        /\ OfErrorClass(n)
        /\ \E m \in 1..(n - 1) :
             OfErrorClass(m) /\ gen_df[m].CALC_ADDRESS = gen_df[n].CALC_ADDRESS }

\* C24: when the Validator rejects a set for duplicate addresses within a
\* class, the error lists every result that shares its address with another
\* result of that class, the first occurrence of each address included.
C24_CompleteOffendingRows ==
    DuplicateRejected =>
      Range(error.rows) = { gen_df[n].TAG : n \in SharingAddress }

\* the error lists the later occurrences of each address only
C24_LaterOccurrences ==
    (DuplicateRejected /\ \A n \in 1..Len(gen_df) : gen_df[n].MEM_TYPE # NAN) =>
      error.rows = [ k \in 1..Len(error.rows) |->
                       gen_df[CHOOSE n \in SharingWithEarlier :
                                Cardinality({ m \in SharingWithEarlier : m < n }) = k - 1].TAG ]

\* two results at one address, the error names the second one only
C24_FirstLeftOut ==
    /\ DuplicateRejected /\ Len(gen_df) = 2
    /\ gen_df[1].CALC_ADDRESS = gen_df[2].CALC_ADDRESS
    /\ error.rows = << gen_df[2].TAG >> /\ gen_df[1].TAG # gen_df[2].TAG

-----------------------------------------------------------------------------
(* The inputs of a run *)

\* name, group and address of the tags of a frame or of the export file
SourceTags(df) == { << df[i].Tag, df[i].Group, df[i].ModbusAddress >> : i \in 1..Len(df) }

\* the loaded export frame holds the tags of the export file
SnapshotKept ==
    twinsoft_tags_df # << >> =>
      SourceTags(twinsoft_tags_df) = SourceTags(twinsoft_tag_export_file)

\* the output holds the results of the run and nothing else: every row of a
\* clone is a selected source tag shifted and renamed, every row of generate
\* and create is a pending TagIntent
OnlyNewResults ==
    write_xml_file # << >> =>
      /\ write_xml_file = gen_df
      /\ \A n \in 1..Len(write_xml_file) :
           IF cmd = "clone"
           THEN \E i \in SelectedTags :
                  LET t == twinsoft_tag_export_file[i]
                  IN  /\ write_xml_file[n].CALC_ADDRESS = t.ModbusAddress + args.address_offset
                      /\ write_xml_file[n].TAG = SubstFirst(t.Tag, args.replace_pattern, args.loop_no)
           ELSE write_xml_file[n].TAG \in ProducedNames

\* C25: after loading, no step of a generate, create or clone run, successful
\* or failed, changes the export frame, the TAGS, TEMPLATE and MEMORY_MAP
\* sheets; the source tags keep their names, groups and addresses, clone
\* shifts and renames a copy, and the output holds only the new results.
C25_InputsImmutable ==
    /\ [](SnapshotKept /\ OnlyNewResults)
    /\ [][pc # "start" =>
            UNCHANGED << twinsoft_tags_df, tags_df, template_df, memory_map_df,
                         twinsoft_tag_export_file >>]_vars

\* a clone with offset 500 is written at 1500 while its source is still at
\* 1000 under its name
C25_Witness ==
    /\ cmd = "clone" /\ pc = "done" /\ args.address_offset = 500
    /\ twinsoft_tag_export_file = << K1 >>
    /\ write_xml_file[1].CALC_ADDRESS = 1500 /\ write_xml_file[1].TAG = << "P", "2", "T", "1" >>
    /\ twinsoft_tags_df[1].ModbusAddress = 1000 /\ twinsoft_tags_df[1].Tag = << "P", "1", "T", "1" >>

-----------------------------------------------------------------------------
(* Names and addresses of the written results *)

\* C26: in every result set that is approved and written, by generate, create
\* or clone, the tag names are pairwise distinct.
C26_UniqueNames ==
    write_xml_file # << >> =>
      \A i, j \in 1..Len(write_xml_file) :
        i # j => write_xml_file[i].TAG # write_xml_file[j].TAG


\* a clone whose substitution gives two source names one name is written
C26_CloneSameName ==
    /\ cmd = "clone" /\ pc = "done"
    /\ twinsoft_tag_export_file = << K1, K5 >>
    /\ Len(write_xml_file) = 2
    /\ write_xml_file[1].TAG = write_xml_file[2].TAG
    /\ write_xml_file[1].CALC_ADDRESS # write_xml_file[2].CALC_ADDRESS

\* a generate run whose pattern has no '*' writes one name for each suffix row
C26_StarlessPattern ==
    /\ cmd = "generate" /\ pc = "done"
    /\ tags_df = StarlessTagsSheet /\ template_df = TwoSuffixTemplate
    /\ Len(write_xml_file) = 2
    /\ write_xml_file[1].TAG = << "X", "1" >> /\ write_xml_file[2].TAG = << "X", "1" >>


\* result n and tag i of the export file are both boolean or both not
SameClassAsExisting(n, i) ==
    IsBoolResult(gen_df[n]) = (twinsoft_tag_export_file[i].Format = "DIGITAL")

\* C27: in every approved result of generate, create or clone no new result
\* has the address of a tag of the export file of the same boolean or
\* non-boolean class.
C27_NoConflictWithExisting ==
    pc \in { "approved", "done" } =>
      \A n \in 1..Len(gen_df) : \A i \in 1..Len(twinsoft_tag_export_file) :
        SameClassAsExisting(n, i) =>
          gen_df[n].CALC_ADDRESS # twinsoft_tag_export_file[i].ModbusAddress


\* a generate run puts a BOOL tag at the start of the region G1 BOOL, which no
\* tag of the export file uses, where the DIGITAL tag of group C2 sits
C27_GenerateNoUsage ==
    /\ cmd = "generate" /\ pc = "done" /\ ~args.ignore_map_errors
    /\ twinsoft_tag_export_file = << X6 >>
    /\ \E n \in 1..Len(write_xml_file) :
         /\ write_xml_file[n].MEM_ID = G1 /\ write_xml_file[n].MEM_TYPE = "BOOL"
         /\ write_xml_file[n].CALC_ADDRESS = X6.ModbusAddress


\* a checked clone of P1T1 with offset 500 is written at 1500, the address of
\* the tag Q6 that the name filter left out
C27_CloneOntoOther ==
    /\ cmd = "clone" /\ pc = "done" /\ ~args.ignore_map_errors /\ ~args.blind_validation
    /\ args.address_offset = 500
    /\ twinsoft_tag_export_file = << K1, K6 >>
    /\ Len(write_xml_file) = 1
    /\ write_xml_file[1].CALC_ADDRESS = K6.ModbusAddress


\* the address units a result occupies: its stride from its address on
UnitsOf(r) == r.CALC_ADDRESS .. (r.CALC_ADDRESS + StrideOfType(r.MEM_TYPE, r.TEXT_LEN) - 1)

\* generate has approved its results with the overlap check of the memory map
\* passed and not suppressed
ApprovedChecked ==
    /\ cmd = "generate" /\ pc \in { "approved", "done" }
    /\ ~args.ignore_map_errors
    /\ OverlappingPairs(memory_map_df) = {}

\* C28: in an approved generate result obtained with the overlap check passed
\* and not suppressed no two non-BOOL tags occupy a common address unit, each
\* taken to occupy its stride from its address on.
C28_NoSharedUnits ==
    ApprovedChecked =>
      \A i, j \in 1..Len(gen_df) :
        (i # j /\ ~IsBoolResult(gen_df[i]) /\ ~IsBoolResult(gen_df[j])) =>
          UnitsOf(gen_df[i]) \cap UnitsOf(gen_df[j]) = {}


\* a checked generate run writes a FLOAT tag at 202, the end address of its
\* region, and a UINT16 tag at 203, the start of the next region
C28_FloatAtEnd ==
    /\ ApprovedChecked /\ pc = "done"
    /\ memory_map_df = MemoryMapAdjacent
    /\ \E i, j \in 1..Len(write_xml_file) :
         /\ write_xml_file[i].MEM_TYPE = "FLOAT" /\ write_xml_file[i].CALC_ADDRESS = 202
         /\ write_xml_file[j].MEM_TYPE = "UINT16" /\ write_xml_file[j].CALC_ADDRESS = 203

=============================================================================
